---- MODULE Spec2Model ----
(***************************************************************************)
(* Verification model of parts of the hyrise column store:                 *)
(*   - the SetUnion operator  (src/lib/operators/set_union.cpp)            *)
(*   - the DictionaryEncoder  (src/lib/storage/column_encoders/            *)
(*                             dictionary_encoder.hpp)                     *)
(*   - the SIMD-BP128 vector and its test, the RunLengthColumn             *)
(*   - the SQLTranslator      (SQL statements to logical query plans)      *)
(* Column ids, row indices and value ids are 0-based as in the source;     *)
(* TLA+ sequences are 1-based, so element k of a vector v is v[k + 1].     *)
(***************************************************************************)
EXTENDS Integers, Sequences, FiniteSets, TLC

\* ------------------------------------------------------------------ bounds

\* most rows an input table of SetUnion holds
MaxRows == 2
\* the largest chunk size of an input table
MaxChunkSize == 2
\* most rows of a value column handed to the DictionaryEncoder
MaxColumnLength == 4
\* the values of such a column are 1..MaxValue
MaxValue == 3
\* the largest dictionary size the choice of the attribute vector's width is checked for
MaxDictionarySize == 65540
\* the last row of a RunLengthColumn is at most MaxEndPosition
MaxEndPosition == 4
\* the run values and the NULL sentinel of a RunLengthColumn are 0..MaxRunValue
MaxRunValue == 2

VARIABLES
    input_left,        \* SetUnion: the table produced by the left input operator
    input_right,       \* SetUnion: the table produced by the right input operator
    set_union,         \* the operator SetUnion(left, right)
    set_union_swapped, \* the operator SetUnion(right, left)
    value_column,      \* DictionaryEncoder: the ValueColumn<T> handed to _encode
    dictionary_column, \* DictionaryEncoder: the DictionaryColumn<T> _encode returns
    dictionary_size,   \* encoding choice: dictionary.size() of a dictionary of any size
    zs_type,           \* encoding choice: the ZsType chosen for its attribute vector
    bit_size,          \* SimdBp128Test: the test parameter _bit_size
    sequence,          \* SimdBp128Test: the sequence handed to encode
    encoded_sequence,  \* SimdBp128Test: the SimdBp128Vector the encoder returned
    decoded_sequence,  \* SimdBp128Test: what each of the three ways of decoding read
    run_length_column, \* RunLengthColumn: values, end_positions, null_value
    access,            \* RunLengthColumn: an operator[] call and its result
    statement,         \* SQLTranslator: the hsql statement handed to translate_statement
    validate,          \* SQLTranslator: the flag _validate
    lqp,               \* SQLTranslator: the nodes made and the node returned
    merge,             \* SetUnion: the merge loop of _on_execute, iteration by iteration
    heap,              \* BaseExpression: the expression objects made so far
    expression_call    \* BaseExpression: the last call on an expression and its result

setUnionVars == <<input_left, input_right, set_union, set_union_swapped>>

dictionaryVars == <<value_column, dictionary_column>>

encodingVars == <<dictionary_size, zs_type>>

simdBp128Vars == <<bit_size, sequence, encoded_sequence, decoded_sequence>>

runLengthVars == <<run_length_column, access>>

translatorVars == <<statement, validate, lqp>>

mergeVars == <<merge>>

expressionVars == <<heap, expression_call>>

vars == <<input_left, input_right, set_union, set_union_swapped,
          value_column, dictionary_column, dictionary_size, zs_type,
          bit_size, sequence, encoded_sequence, decoded_sequence,
          run_length_column, access, statement, validate, lqp,
          merge, heap, expression_call>>

\* ------------------------------------------------------- generic helpers

Min(a, b) == IF a < b THEN a ELSE b

Max(a, b) == IF a < b THEN b ELSE a

RECURSIVE Concat(_)
\* the concatenation of a sequence of sequences
Concat(seqs) == IF seqs = <<>> THEN <<>> ELSE Head(seqs) \o Concat(Tail(seqs))

RECURSIVE SumSeq(_)
SumSeq(s) == IF s = <<>> THEN 0 ELSE Head(s) + SumSeq(Tail(s))

\* --------------------------------------------------------------- RowID

\* RowID{chunk_id, chunk_offset} is the pair <<chunk_id, chunk_offset>>; it is
\* ordered by chunk_id first and chunk_offset second.
RowIDLess(a, b) == a[1] < b[1] \/ (a[1] = b[1] /\ a[2] < b[2])

\* ------------------------------------------------ tables, chunks, columns
\* A table is   [column_definitions, type, chunk_size, chunks]
\* a chunk is   [size, columns]
\* a column is  [pos_list, rows]: pos_list is the identity of the PosList a
\*              ReferenceColumn shares (0 for a column that is no
\*              ReferenceColumn), rows the RowIDs that PosList holds.

column_count(table) == Len(table.column_definitions)

row_count(table) == SumSeq([c \in 1..Len(table.chunks) |-> table.chunks[c].size])

get_type(table) == table.type

NoTable == [column_definitions |-> <<>>, type |-> "None", chunk_size |-> 0, chunks |-> <<>>]

\* ------------------------------------------------------ SetUnion: analysis

RECURSIVE add_column_segments_from(_, _, _)
\* the column ids (from column_id on) at which the first chunk changes PosList
add_column_segments_from(table, column_id, current_pos_list) ==
    IF column_id >= column_count(table) THEN <<>>
    ELSE LET pos_list == table.chunks[1].columns[column_id + 1].pos_list
         IN  IF current_pos_list # pos_list
             THEN <<column_id>> \o add_column_segments_from(table, column_id + 1, pos_list)
             ELSE add_column_segments_from(table, column_id + 1, current_pos_list)

add_column_segments(table) == add_column_segments_from(table, 0, 0)

RECURSIVE SortUniqueSet(_)
SortUniqueSet(S) ==
    IF S = {} THEN <<>>
    ELSE LET m == CHOOSE x \in S : \A y \in S : x <= y
         IN  <<m>> \o SortUniqueSet(S \ {m})

\* std::sort, std::unique and resize on _column_segment_begins
SortUnique(seq) == SortUniqueSet({seq[i] : i \in 1..Len(seq)})

ColumnCountMismatch(left, right) == column_count(left) # column_count(right)

\* the mutation of ColumnLayoutMismatch that leaves the column names unchecked
ColumnLayoutMismatch_TypesOnly(left, right) ==
    \E column_idx \in 1..column_count(left) :
        left.column_definitions[column_idx].type # right.column_definitions[column_idx].type

\* the loop of Asserts over the column types and names
ColumnLayoutMismatch(left, right) ==
    \E column_idx \in 1..column_count(left) :
        \/ left.column_definitions[column_idx].type # right.column_definitions[column_idx].type
        \/ left.column_definitions[column_idx].name # right.column_definitions[column_idx].name

\* the mutation of EmptyInputResult that hands back the empty table
EmptyInputResult_ReturnsEmpty(left, right) ==
    IF row_count(left) = 0 THEN "left"
    ELSE IF row_count(right) = 0 THEN "right"
    ELSE "none"

\* "If one doesn't [have rows], we can just return the other"
EmptyInputResult(left, right) ==
    IF row_count(left) = 0 THEN "right"
    ELSE IF row_count(right) = 0 THEN "left"
    ELSE "none"

\* the mutation of OnlyReferenceColumns that hands back the left table
OnlyReferenceColumns_ReturnsLeft(left, right) ==
    IF get_type(left) = "References" /\ get_type(right) = "References" THEN "merge" ELSE "left"

\* "Both tables must contain only ReferenceColumns": the Assert on the table types
OnlyReferenceColumns(left, right) ==
    IF get_type(left) = "References" /\ get_type(right) = "References" THEN "merge" ELSE "failed"

\* _analyze_input: "failed" when an Assert fires, "left"/"right" for an early
\* result, otherwise "merge" with the computed _column_segment_begins
_analyze_input(left, right) ==
    IF ColumnCountMismatch(left, right)
    THEN [result |-> "failed", column_segment_begins |-> <<>>]
    ELSE IF column_count(left) = 0
    THEN [result |-> "left", column_segment_begins |-> <<>>]
    ELSE IF ColumnLayoutMismatch(left, right)
    THEN [result |-> "failed", column_segment_begins |-> <<>>]
    ELSE IF EmptyInputResult(left, right) # "none"
    THEN [result |-> EmptyInputResult(left, right), column_segment_begins |-> <<>>]
    ELSE IF OnlyReferenceColumns(left, right) = "failed"
    THEN [result |-> "failed", column_segment_begins |-> <<>>]
    ELSE [result |-> "merge",
          column_segment_begins |->
              SortUnique(add_column_segments(left) \o add_column_segments(right))]

\* ------------------------------------------- SetUnion: reference matrices

\* one PosList per segment: the PosLists of the segment's first column,
\* concatenated over the chunks
build_reference_matrix(input_table, column_segment_begins) ==
    [segment_id \in 1..Len(column_segment_begins) |->
        Concat([chunk_id \in 1..Len(input_table.chunks) |->
            input_table.chunks[chunk_id].columns[column_segment_begins[segment_id] + 1].rows])]

RECURSIVE VirtualPosListCmpFrom(_, _, _, _)
VirtualPosListCmpFrom(reference_matrix, column, lhs, rhs) ==
    IF column > Len(reference_matrix) THEN FALSE
    ELSE LET left_row_id == reference_matrix[column][lhs + 1]
             right_row_id == reference_matrix[column][rhs + 1]
         IN  IF RowIDLess(left_row_id, right_row_id) THEN TRUE
             ELSE IF RowIDLess(right_row_id, left_row_id) THEN FALSE
             ELSE VirtualPosListCmpFrom(reference_matrix, column + 1, lhs, rhs)

\* VirtualPosListCmpContext::operator()
VirtualPosListCmpContext(reference_matrix, lhs, rhs) ==
    VirtualPosListCmpFrom(reference_matrix, 1, lhs, rhs)

RECURSIVE InsertSorted(_, _, _)
InsertSorted(sorted, idx, reference_matrix) ==
    IF sorted = <<>> THEN <<idx>>
    ELSE IF VirtualPosListCmpContext(reference_matrix, idx, Head(sorted))
         THEN <<idx>> \o sorted
         ELSE <<Head(sorted)>> \o InsertSorted(Tail(sorted), idx, reference_matrix)

RECURSIVE SortVirtualPosList(_, _)
\* std::sort of a virtual pos list under VirtualPosListCmpContext. Rows that
\* compare equal hold the same RowIDs, so the order std::sort leaves them in
\* cannot be seen in the emitted rows.
SortVirtualPosList(virtual_pos_list, reference_matrix) ==
    IF virtual_pos_list = <<>> THEN <<>>
    ELSE InsertSorted(SortVirtualPosList(Tail(virtual_pos_list), reference_matrix),
                      Head(virtual_pos_list), reference_matrix)

\* std::iota(0) over row_count entries
Iota(n) == [i \in 1..n |-> i - 1]

\* --------------------------------------------------- SetUnion: the merge

RECURSIVE cmp_from(_, _, _, _, _)
cmp_from(column_idx, matrix_a, idx_a, matrix_b, idx_b) ==
    IF column_idx > Len(matrix_a) THEN FALSE
    ELSE IF RowIDLess(matrix_a[column_idx][idx_a + 1], matrix_b[column_idx][idx_b + 1]) THEN TRUE
    ELSE IF RowIDLess(matrix_b[column_idx][idx_b + 1], matrix_a[column_idx][idx_a + 1]) THEN FALSE
    ELSE cmp_from(column_idx + 1, matrix_a, idx_a, matrix_b, idx_b)

\* the mutation of cmp that looks at the first column of the matrices only
cmp_FirstColumnOnly(matrix_a, idx_a, matrix_b, idx_b) ==
    RowIDLess(matrix_a[1][idx_a + 1], matrix_b[1][idx_b + 1])

\* the lambda cmp: is row idx_a of matrix_a lexicographically below row idx_b of matrix_b
cmp(matrix_a, idx_a, matrix_b, idx_b) == cmp_from(1, matrix_a, idx_a, matrix_b, idx_b)

\* the lambda emit_row
emit_row(pos_lists, reference_matrix, row_idx) ==
    [pos_list_idx \in 1..Len(pos_lists) |->
        Append(pos_lists[pos_list_idx], reference_matrix[pos_list_idx][row_idx + 1])]

\* the mutation of emit_chunk that gives every column a PosList of its own
emit_chunk_PosListPerColumn(pos_lists, column_segment_begins, num_columns) ==
    LET segment_of(column_id) ==
            CHOOSE pos_lists_idx \in 1..Len(pos_lists) :
                /\ column_segment_begins[pos_lists_idx] <= column_id
                /\ \A later \in (pos_lists_idx + 1)..Len(pos_lists) :
                       column_segment_begins[later] > column_id
        columns == [column \in 1..num_columns |->
                       [pos_list |-> column, rows |-> pos_lists[segment_of(column - 1)]]]
    IN  [size |-> IF columns = <<>> THEN 0 ELSE Len(columns[1].rows), columns |-> columns]

\* the lambda emit_chunk: the chunk built from pos_lists, one ReferenceColumn per
\* column id of each segment, all columns of a segment sharing its PosList
emit_chunk(pos_lists, column_segment_begins, num_columns) ==
    LET segment_columns(pos_lists_idx) ==
            LET segment_column_id_begin == column_segment_begins[pos_lists_idx]
                segment_column_id_end ==
                    IF pos_lists_idx - 1 >= Len(column_segment_begins) - 1
                    THEN num_columns
                    ELSE column_segment_begins[pos_lists_idx + 1]
            IN  [k \in 1..(segment_column_id_end - segment_column_id_begin) |->
                    [pos_list |-> pos_lists_idx, rows |-> pos_lists[pos_lists_idx]]]
        columns == Concat([pos_lists_idx \in 1..Len(pos_lists) |-> segment_columns(pos_lists_idx)])
    IN  [size |-> IF columns = <<>> THEN 0 ELSE Len(columns[1].rows), columns |-> columns]

\* std::generate(pos_lists, make_shared<PosList>)
FreshPosLists(n) == [i \in 1..n |-> <<>>]

\* the mutation of MergeTake that never advances both sides
MergeTake_NoDedup(m, x) ==
    IF m.left_idx = x.num_left THEN "right"
    ELSE IF m.right_idx = x.num_right THEN "left"
    ELSE IF cmp(x.reference_matrix_right, x.virtual_pos_list_right[m.right_idx + 1],
                x.reference_matrix_left, x.virtual_pos_list_left[m.left_idx + 1])
         THEN "right"
    ELSE "left"

\* the mutation of MergeTake that advances both sides whenever the right row is
\* not the smaller one
MergeTake_AlwaysBoth(m, x) ==
    IF m.left_idx = x.num_left THEN "right"
    ELSE IF m.right_idx = x.num_right THEN "left"
    ELSE IF cmp(x.reference_matrix_right, x.virtual_pos_list_right[m.right_idx + 1],
                x.reference_matrix_left, x.virtual_pos_list_left[m.left_idx + 1])
         THEN "right"
    ELSE "both"

\* the mutation of MergeTake that takes the right row alone when the rows are equal
MergeTake_RightOnEqual(m, x) ==
    IF m.left_idx = x.num_left THEN "right"
    ELSE IF m.right_idx = x.num_right THEN "left"
    ELSE IF cmp(x.reference_matrix_left, x.virtual_pos_list_left[m.left_idx + 1],
                x.reference_matrix_right, x.virtual_pos_list_right[m.right_idx + 1])
         THEN "left"
    ELSE "right"

\* The branch one iteration of the merge loop takes: "right" emits the right
\* row and advances right_idx, "left" emits the left row and advances left_idx,
\* "both" emits the left row and advances both. m is the loop's state
\*   [left_idx, right_idx, chunk_row_idx, pos_lists, chunks]
\* and x the values that are constant during the loop.
MergeTake(m, x) ==
    IF m.left_idx = x.num_left THEN "right"
    ELSE IF m.right_idx = x.num_right THEN "left"
    ELSE IF cmp(x.reference_matrix_right, x.virtual_pos_list_right[m.right_idx + 1],
                x.reference_matrix_left, x.virtual_pos_list_left[m.left_idx + 1])
         THEN "right"
    ELSE IF ~cmp(x.reference_matrix_left, x.virtual_pos_list_left[m.left_idx + 1],
                 x.reference_matrix_right, x.virtual_pos_list_right[m.right_idx + 1])
         THEN "both"
    ELSE "left"

\* one iteration of the merge loop, the emission of a completed chunk included
MergeIteration(m, x) ==
    LET take == MergeTake(m, x)
        emitted ==
            IF take = "right"
            THEN emit_row(m.pos_lists, x.reference_matrix_right,
                          x.virtual_pos_list_right[m.right_idx + 1])
            ELSE emit_row(m.pos_lists, x.reference_matrix_left,
                          x.virtual_pos_list_left[m.left_idx + 1])
        chunk_row_idx == m.chunk_row_idx + 1
        full == chunk_row_idx = x.out_chunk_size /\ x.out_chunk_size # 0
    IN  [left_idx      |-> IF take \in {"left", "both"} THEN m.left_idx + 1 ELSE m.left_idx,
         right_idx     |-> IF take \in {"right", "both"} THEN m.right_idx + 1 ELSE m.right_idx,
         chunk_row_idx |-> IF full THEN 0 ELSE chunk_row_idx,
         pos_lists     |-> IF full THEN FreshPosLists(Len(emitted)) ELSE emitted,
         chunks        |-> IF full
                           THEN Append(m.chunks,
                                       emit_chunk(emitted, x.column_segment_begins, x.num_columns))
                           ELSE m.chunks]

RECURSIVE MergeLoop(_, _)
\* the for loop of _on_execute, run until its condition fails
MergeLoop(m, x) ==
    IF m.left_idx < x.num_left \/ m.right_idx < x.num_right
    THEN MergeLoop(MergeIteration(m, x), x)
    ELSE m

\* the mutation of OutChunkSize that looks at the left input only
OutChunkSize_LeftOnly(left, right) == left.chunk_size

\* "Somewhat random way to decide on a chunk size."
OutChunkSize(left, right) == Max(left.chunk_size, right.chunk_size)

\* the values _on_execute computes ahead of the merge loop
MergeContext(left, right, column_segment_begins) ==
    LET reference_matrix_left == build_reference_matrix(left, column_segment_begins)
        reference_matrix_right == build_reference_matrix(right, column_segment_begins)
    IN  [reference_matrix_left  |-> reference_matrix_left,
         reference_matrix_right |-> reference_matrix_right,
         virtual_pos_list_left  |-> SortVirtualPosList(Iota(row_count(left)), reference_matrix_left),
         virtual_pos_list_right |-> SortVirtualPosList(Iota(row_count(right)), reference_matrix_right),
         num_left  |-> row_count(left),
         num_right |-> row_count(right),
         out_chunk_size |-> OutChunkSize(left, right),
         column_segment_begins |-> column_segment_begins,
         num_columns |-> column_count(left)]

MergeStart(x) ==
    [left_idx |-> 0, right_idx |-> 0, chunk_row_idx |-> 0,
     pos_lists |-> FreshPosLists(Len(x.reference_matrix_left)), chunks |-> <<>>]

\* the condition of the for loop
MergeContinues(m, x) == m.left_idx < x.num_left \/ m.right_idx < x.num_right

\* the indices at which one iteration reads virtual_pos_list_left and
\* virtual_pos_list_right: the first two branches read one list, the calls of
\* cmp read both
MergeReads(m, x) ==
    IF m.left_idx = x.num_left THEN [left |-> {}, right |-> {m.right_idx}]
    ELSE IF m.right_idx = x.num_right THEN [left |-> {m.left_idx}, right |-> {}]
    ELSE [left |-> {m.left_idx}, right |-> {m.right_idx}]

\* the merge loop before _on_execute enters it, and as a variable: the values
\* x computed ahead of the loop, the loop's state m, the iterations run and the
\* branch the last iteration took from which indices
NotMerging ==
    [merging |-> FALSE, iterations |-> 0, take |-> "none", from_left_idx |-> 0,
     from_right_idx |-> 0,
     x |-> [reference_matrix_left |-> <<>>, reference_matrix_right |-> <<>>,
            virtual_pos_list_left |-> <<>>, virtual_pos_list_right |-> <<>>,
            num_left |-> 0, num_right |-> 0, out_chunk_size |-> 0,
            column_segment_begins |-> <<>>, num_columns |-> 0],
     m |-> [left_idx |-> 0, right_idx |-> 0, chunk_row_idx |-> 0, pos_lists |-> <<>>,
            chunks |-> <<>>]]

\* out_table once the loop is left with the state m: the chunk being filled
\* is emitted if it holds a row
MergeResult(m, x, left) ==
    [column_definitions |-> left.column_definitions,
     type |-> "References",
     chunk_size |-> x.out_chunk_size,
     chunks |-> IF m.chunk_row_idx # 0
                THEN Append(m.chunks,
                            emit_chunk(m.pos_lists, x.column_segment_begins, x.num_columns))
                ELSE m.chunks]

\* the table _on_execute builds when _analyze_input gave no early result
MergedTable(left, right, column_segment_begins) ==
    LET x == MergeContext(left, right, column_segment_begins)
    IN  MergeResult(MergeLoop(MergeStart(x), x), x, left)

\* SetUnion::_on_execute on the inputs left and right: the operator afterwards
_on_execute(left, right) ==
    LET analysis == _analyze_input(left, right)
    IN  [executed |-> TRUE,
         column_segment_begins |-> analysis.column_segment_begins,
         status |-> IF analysis.result = "failed" THEN "failed" ELSE "ok",
         from   |-> IF analysis.result = "merge" THEN "new" ELSE analysis.result,
         output |-> CASE analysis.result = "failed" -> NoTable
                      [] analysis.result = "left"   -> left
                      [] analysis.result = "right"  -> right
                      [] OTHER -> MergedTable(left, right, analysis.column_segment_begins)]

\* the operator as constructed, not yet executed
NotExecuted ==
    [executed |-> FALSE, column_segment_begins |-> <<>>, status |-> "none",
     from |-> "none", output |-> NoTable]

\* ------------------------------------------------- SetUnion: input tables

\* an input table has no chunk size (0), one row per chunk or MaxChunkSize rows per chunk
ChunkSizes == {0, 1, MaxChunkSize}

ColumnA == [name |-> "a", type |-> "int"]
ColumnB == [name |-> "b", type |-> "string"]

\* the column layouts of the left input: none, one or two columns
LeftSchemas == {<<>>, <<ColumnA>>, <<ColumnA, ColumnB>>}

\* the right input has one of these or a layout that differs in a name or a type
RightSchemas ==
    LeftSchemas \cup
    { <<[name |-> "a", type |-> "string"]>>, <<[name |-> "b", type |-> "int"]>>,
      <<ColumnA, [name |-> "b", type |-> "int"]>>, <<ColumnA, [name |-> "c", type |-> "string"]>>,
      <<[name |-> "c", type |-> "int"], ColumnB>> }

\* which PosList each column of a chunk holds: one column; two columns of one
\* segment; two columns of two segments
Layouts(num_columns) == IF num_columns = 1 THEN {<<1>>} ELSE {<<1, 1>>, <<1, 2>>}

\* the rows a References table may hold, one RowID per segment: three RowIDs
\* for a table of one column, two for a table of two columns in one segment,
\* three pairs for a table of two segments
SegmentRows(layout) ==
    IF layout = <<1>> THEN {<< <<0, 0>> >>, << <<0, 2>> >>, << <<0, 5>> >>}
    ELSE IF layout = <<1, 1>> THEN {<< <<0, 2>> >>, << <<1, 0>> >>}
    ELSE {<< <<0, 5>>, <<0, 2>> >>, << <<1, 0>>, <<0, 0>> >>, << <<1, 0>>, <<0, 2>> >>}

\* rows cut into chunks of chunk_size rows (one chunk when chunk_size is 0);
\* a table always holds at least one chunk
ChunkRanges(num_rows, chunk_size) ==
    IF chunk_size = 0 \/ num_rows = 0 THEN << <<1, num_rows>> >>
    ELSE [c \in 1..((num_rows + chunk_size - 1) \div chunk_size) |->
             <<(c - 1) * chunk_size + 1, Min(c * chunk_size, num_rows)>>]

ReferencesTable(schema, chunk_size, layout, rows) ==
    LET ranges == ChunkRanges(Len(rows), chunk_size)
        chunk(c) ==
            LET chunk_rows == SubSeq(rows, ranges[c][1], ranges[c][2])
            IN  [size |-> Len(chunk_rows),
                 columns |-> [column \in 1..Len(schema) |->
                     [pos_list |-> layout[column],
                      rows |-> [i \in 1..Len(chunk_rows) |-> chunk_rows[i][layout[column]]]]]]
    IN  [column_definitions |-> schema, type |-> "References", chunk_size |-> chunk_size,
         chunks |-> [c \in 1..Len(ranges) |-> chunk(c)]]

DataTable(schema, chunk_size, num_rows) ==
    LET ranges == ChunkRanges(num_rows, chunk_size)
    IN  [column_definitions |-> schema, type |-> "Data", chunk_size |-> chunk_size,
         chunks |-> [c \in 1..Len(ranges) |->
             [size |-> IF Len(schema) = 0 THEN 0 ELSE ranges[c][2] - ranges[c][1] + 1,
              columns |-> [column \in 1..Len(schema) |-> [pos_list |-> 0, rows |-> <<>>]]]]]

\* table is a table of the column layout schema and of max_rows rows at most: a
\* Data table (the only kind without columns) or a References table of any
\* segmentation, rows and chunk size
IsInputTable(table, schema, max_rows) ==
    \/ \E chunk_size \in ChunkSizes, n \in 0..(IF Len(schema) = 0 THEN 0 ELSE max_rows) :
          table = DataTable(schema, chunk_size, n)
    \/ /\ Len(schema) > 0
       /\ \E chunk_size \in ChunkSizes, layout \in Layouts(Len(schema)), n \in 0..max_rows :
             \E rows \in [1..n -> SegmentRows(layout)] :
                 table = ReferencesTable(schema, chunk_size, layout, rows)

\* inputs of differing layout fail before a row is read: they hold one row at most
InputRows(left_schema, right_schema) == IF left_schema = right_schema THEN MaxRows ELSE 1

\* ------------------------------------------------------ DictionaryEncoder

\* std::numeric_limits<uint8_t>::max() and std::numeric_limits<uint16_t>::max()
UINT8_MAX == 255
UINT16_MAX == 65535

\* dictionary with the entries at the 1-based positions i and j exchanged
Swap(dictionary, i, j) ==
    [k \in 1..Len(dictionary) |->
        IF k = i THEN dictionary[j] ELSE IF k = j THEN dictionary[i] ELSE dictionary[k]]

RECURSIVE SwapNullsToBack(_, _, _, _)
\* The loop "Swap values to back if value is null": dict_it and null_it stand
\* at the 1-based position it (rbegin() is Len(dictionary), rend() is 0),
\* erase_from_here is 0-based as an offset from begin(). Gives the offset the
\* loop ends with and the dictionary it leaves.
SwapNullsToBack(dictionary, null_values, it, erase_from_here) ==
    IF it = 0 THEN [dictionary |-> dictionary, erase_from_here |-> erase_from_here]
    ELSE IF null_values[it]
         THEN SwapNullsToBack(Swap(dictionary, it, erase_from_here), null_values,
                              it - 1, erase_from_here - 1)
         ELSE SwapNullsToBack(dictionary, null_values, it - 1, erase_from_here)

\* the mutation of RemoveNullValues that erases as many entries as there are
\* NULLs without swapping them to the back
RemoveNullValues_EraseTail(dictionary, null_values) ==
    SubSeq(dictionary, 1,
           SwapNullsToBack(dictionary, null_values, Len(dictionary), Len(dictionary)).erase_from_here)

\* "Remove null values from value vector": the swap loop and the erase
RemoveNullValues(dictionary, null_values) ==
    LET swapped == SwapNullsToBack(dictionary, null_values, Len(dictionary), Len(dictionary))
    IN  SubSeq(swapped.dictionary, 1, swapped.erase_from_here)

RECURSIVE InsertValue(_, _)
InsertValue(sorted, value) ==
    IF sorted = <<>> THEN <<value>>
    ELSE IF value < Head(sorted) THEN <<value>> \o sorted
    ELSE <<Head(sorted)>> \o InsertValue(Tail(sorted), value)

RECURSIVE SortValues(_)
\* std::sort(dictionary.begin(), dictionary.end())
SortValues(dictionary) ==
    IF dictionary = <<>> THEN <<>>
    ELSE InsertValue(SortValues(Tail(dictionary)), Head(dictionary))

RECURSIVE Unique(_)
\* dictionary.erase(std::unique(...), dictionary.end()): of every run of equal
\* neighbours the first is kept
Unique(dictionary) ==
    IF Len(dictionary) <= 1 THEN dictionary
    ELSE IF dictionary[1] = dictionary[2] THEN Unique(Tail(dictionary))
    ELSE <<dictionary[1]>> \o Unique(Tail(dictionary))

RECURSIVE UpperBound(_, _)
UpperBound(dictionary, value) ==
    IF dictionary = <<>> \/ value < Head(dictionary) THEN 0
    ELSE 1 + UpperBound(Tail(dictionary), value)

\* the mutation of _get_value_id that uses std::upper_bound
_get_value_id_UpperBound(dictionary, value) == UpperBound(dictionary, value)

RECURSIVE _get_value_id(_, _)
\* std::distance(cbegin, std::lower_bound(cbegin, cend, value)): the 0-based
\* position of the first entry that is not less than value
_get_value_id(dictionary, value) ==
    IF dictionary = <<>> \/ ~(Head(dictionary) < value) THEN 0
    ELSE 1 + _get_value_id(Tail(dictionary), value)

get_fixed_size_byte_aligned_encoding(unique_values_count) ==
    IF unique_values_count <= UINT8_MAX THEN "FixedSize1ByteAligned"
    ELSE IF unique_values_count <= UINT16_MAX THEN "FixedSize2ByteAligned"
    ELSE "FixedSize4ByteAligned"

\* bytes per element of a fixed-size byte-aligned vector
ZsTypeBytes(type) ==
    CASE type = "FixedSize1ByteAligned" -> 1
      [] type = "FixedSize2ByteAligned" -> 2
      [] type = "FixedSize4ByteAligned" -> 4

\* encode_by_zs_type for the fixed-size byte-aligned types: every element is
\* stored in an unsigned integer of the type's width
encode_by_zs_type(type, vector) ==
    [i \in 1..Len(vector) |-> vector[i] % (2 ^ (8 * ZsTypeBytes(type)))]

\* DictionaryEncoder::_encode
_encode(column) ==
    LET values == column.values
        dictionary ==
            Unique(SortValues(IF column.nullable
                              THEN RemoveNullValues(values, column.null_values)
                              ELSE values))
        null_value_id == Len(dictionary)
        attribute_vector ==
            [i \in 1..Len(values) |->
                IF column.nullable /\ column.null_values[i]
                THEN null_value_id
                ELSE _get_value_id(dictionary, values[i])]
        type == get_fixed_size_byte_aligned_encoding(Len(dictionary) + 1)
    IN  [encoded |-> TRUE,
         dictionary |-> dictionary,
         attribute_vector |-> encode_by_zs_type(type, attribute_vector),
         null_value_id |-> null_value_id,
         zs_type |-> type]

NotEncoded ==
    [encoded |-> FALSE, dictionary |-> <<>>, attribute_vector |-> <<>>,
     null_value_id |-> 0, zs_type |-> "none"]

NoValueColumn == [values |-> <<>>, nullable |-> FALSE, null_values |-> <<>>]

\* ------------------------------------------- SIMD-BP128 (SimdBp128Vector)

\* A uint32_t is the set of the positions of its 1 bits (0 is the least
\* significant), and a 128-bit word (__m128i) the set of the positions 0..127
\* of its 1 bits, lane k (0..3) being the positions 32k .. 32k+31.

\* the bit sizes of the test are ::testing::Range(uint8_t{1}, uint8_t{33})
BitSizesEnd == 33

BitSizes == 1..(BitSizesEnd - 1)

\* values per block, blocks per meta-block, bits of a __m128i and of a lane
block_size == 128
blocks_in_meta_block == 4
meta_block_size == block_size * blocks_in_meta_block
word_bits == 128
lane_bits == 32

\* the uint32_t of value n, n < 2^31
ToBits(n) == {k \in 0..30 : (n \div (2 ^ k)) % 2 = 1}

RECURSIVE FromBits(_)
FromBits(bits) ==
    IF bits = {} THEN 0
    ELSE LET k == CHOOSE k \in bits : TRUE IN (2 ^ k) + FromBits(bits \ {k})

\* SimdBp128Test::generate_sequence: _min, _min + 1, ... wrapping from _max to
\* _min, where _min = 2^(_bit_size - 1) and _max = 2^_bit_size - 1
generate_sequence(count, _bit_size) ==
    [i \in 1..count |->
        {_bit_size - 1} \cup
        ToBits(IF _bit_size > 31 THEN i - 1 ELSE (i - 1) % (2 ^ (_bit_size - 1)))]

\* the sequence that holds _max, all _bit_size bits set, count times
max_sequence(count, _bit_size) == [i \in 1..count |-> 0..(_bit_size - 1)]

\* the lengths of the sequences: none, one, around a block, beyond a meta-block
SequenceCounts ==
    {0, 1, block_size - 1, block_size, block_size + 1, meta_block_size + 1}

\* the number of bits that hold every value of a block: the width of their OR
block_bit_size(values) ==
    LET bits == UNION {values[j] : j \in 1..Len(values)}
    IN IF bits = {} THEN 0 ELSE 1 + (CHOOSE m \in bits : \A k \in bits : k <= m)

\* a block packed at bit size b: value j (0-based) fills bits j*b .. j*b + b - 1
\* of the block's stream of b words
pack_block(values, b) ==
    [q \in 1..b |->
        {r \in 0..(word_bits - 1) :
            LET pos == (q - 1) * word_bits + r
            IN (pos % b) \in values[(pos \div b) + 1]}]

\* the header of a meta-block: lane k holds the bit size of block k
meta_block_header(bit_sizes) ==
    UNION {{lane_bits * (k - 1) + t : t \in ToBits(bit_sizes[k])} :
              k \in 1..blocks_in_meta_block}

\* SimdBp128Vector::SimdBp128Vector(vector, size)
SimdBp128Vector(vector, size) == [_data |-> vector, _size |-> size]

\* SimdBp128Encoder::encode: pads with zeros to whole meta-blocks, writes per
\* meta-block its header and its four blocks, and records the unpadded size
SimdBp128Encoder_encode(vector) ==
    LET num_meta_blocks == (Len(vector) + meta_block_size - 1) \div meta_block_size
        padded == [i \in 1..(num_meta_blocks * meta_block_size) |->
                      IF i <= Len(vector) THEN vector[i] ELSE {}]
        block(m, k) == [j \in 1..block_size |->
                           padded[(m * blocks_in_meta_block + k) * block_size + j]]
        pack_meta_block(m) ==
            LET bit_sizes == [k \in 1..blocks_in_meta_block |->
                                 block_bit_size(block(m, k - 1))]
            IN <<meta_block_header(bit_sizes)>> \o
               Concat([k \in 1..blocks_in_meta_block |->
                          pack_block(block(m, k - 1), bit_sizes[k])])
    IN SimdBp128Vector(Concat([m \in 1..num_meta_blocks |-> pack_meta_block(m - 1)]),
                       Len(vector))

\* the mutation of _on_size that reports the padded length
_on_size_Padded(vector) ==
    ((vector._size + meta_block_size - 1) \div meta_block_size) * meta_block_size

\* SimdBp128Vector::_on_size
_on_size(vector) == vector._size

\* SimdBp128Vector::_on_cbegin: ConstIterator{&_data, _size, 0u}
_on_cbegin(vector) ==
    [data |-> vector._data, size |-> vector._size, absolute_index |-> 0]

\* the mutation of _on_cend that ends the traversal at the padded length
_on_cend_Padded(vector) ==
    [data |-> <<>>, size |-> vector._size, absolute_index |-> _on_size_Padded(vector)]

\* SimdBp128Vector::_on_cend: ConstIterator{nullptr, _size, _size}
_on_cend(vector) ==
    [data |-> <<>>, size |-> vector._size, absolute_index |-> vector._size]

\* the four bit sizes a meta-block header holds
read_header(word) ==
    [k \in 1..blocks_in_meta_block |->
        FromBits({t \in 0..(lane_bits - 1) : (lane_bits * (k - 1) + t) \in word})]

\* value j (0-based) of the block of bit size b whose first word is data[block_begin + 1]
unpack_value(data, block_begin, b, j) ==
    {t \in 0..(b - 1) :
        LET pos == j * b + t
        IN (pos % word_bits) \in data[block_begin + (pos \div word_bits) + 1]}

RECURSIVE meta_block_offset(_, _)
\* the 0-based position of the header of meta-block m, found header by header
meta_block_offset(data, m) ==
    IF m = 0 THEN 0
    ELSE LET offset == meta_block_offset(data, m - 1)
         IN offset + 1 + SumSeq(read_header(data[offset + 1]))

\* SimdBp128Decoder::get(i): random access
get(vector, i) ==
    LET offset == meta_block_offset(vector._data, i \div meta_block_size)
        bit_sizes == read_header(vector._data[offset + 1])
        k == (i % meta_block_size) \div block_size
    IN unpack_value(vector._data, offset + 1 + SumSeq(SubSeq(bit_sizes, 1, k)),
                    bit_sizes[k + 1], i % block_size)

\* the 512 values of the meta-block whose header is data[offset + 1]
unpack_meta_block(data, offset) ==
    LET bit_sizes == read_header(data[offset + 1])
    IN [i \in 1..meta_block_size |->
           LET k == (i - 1) \div block_size
           IN unpack_value(data, offset + 1 + SumSeq(SubSeq(bit_sizes, 1, k)),
                           bit_sizes[k + 1], (i - 1) % block_size)]

RECURSIVE unpack_from(_, _)
\* sequential decoding, meta-block by meta-block, from the header at offset on
unpack_from(data, offset) ==
    IF offset >= Len(data) THEN <<>>
    ELSE unpack_meta_block(data, offset) \o
         unpack_from(data, offset + 1 + SumSeq(read_header(data[offset + 1])))

\* BaseZeroSuppressionVector::decode(): a plain vector of size() values
decode(vector) == SubSeq(unpack_from(vector._data, 0), 1, _on_size(vector))

\* what *it yields for it = begin, ++begin, ... until it equals end
traverse(begin, end) ==
    LET values == unpack_from(begin.data, 0)
    IN [i \in 1..(end.absolute_index - begin.absolute_index) |->
           values[begin.absolute_index + i]]

NoVector == [encoded |-> FALSE, vector |-> SimdBp128Vector(<<>>, 0), size |-> 0]

\* the values a test read back, and the way it read them
Decoded(way, values) == [way |-> way, values |-> values]

NotDecoded == Decoded("none", <<>>)

\* ---------------------------------------------------------- RunLengthColumn

\* RunLengthColumn<T>::RunLengthColumn(values, end_positions, null_value)
RunLengthColumn(values, end_positions, null_value) ==
    [values |-> values, end_positions |-> end_positions, null_value |-> null_value]

\* RunLengthColumn<T>::size
size(column) == column.end_positions[Len(column.end_positions)] + 1

\* the mutation of lower_bound that finds the first entry greater than value
lower_bound_Greater(vector, value) == UpperBound(vector, value)

RECURSIVE lower_bound(_, _)
\* std::distance(cbegin, std::lower_bound(cbegin, cend, value)): the 0-based
\* position of the first entry that is not less than value, the length if none
lower_bound(vector, value) ==
    IF vector = <<>> \/ ~(Head(vector) < value) THEN 0
    ELSE 1 + lower_bound(Tail(vector), value)

\* AllTypeVariant: NULL_VALUE, or a value of type T
NULL_VALUE == [is_null |-> TRUE, value |-> 0]

AllTypeVariant(value) == [is_null |-> FALSE, value |-> value]

\* RunLengthColumn<T>::operator[]; (*_values)[index] past the end of the vector
\* is undefined and reads past_the_end
operator_subscript(column, chunk_offset, past_the_end) ==
    LET index == lower_bound(column.end_positions, chunk_offset)
        value == IF index < Len(column.values) THEN column.values[index + 1]
                 ELSE past_the_end
    IN IF value = column.null_value THEN NULL_VALUE ELSE AllTypeVariant(value)

NoRunLengthColumn == RunLengthColumn(<<>>, <<>>, 0)

NotAccessed == [accessed |-> FALSE, chunk_offset |-> 0, result |-> NULL_VALUE]

\* ------------------------------------------------- hsql: the parsed statement

\* A pointer is a sequence of at most one element: nullptr is <<>>, and a
\* pointer to x is <<x>>.  A char* is a string, the null char* the string "".
\* std::optional values are modelled the same way, std::nullopt being <<>>.
nullptr == <<>>

\* hsql::Expr
Expr(type, opType, table, name, alias, ival, expr, expr2, exprList) ==
    [type |-> type, opType |-> opType, table |-> table, name |-> name, alias |-> alias,
     ival |-> ival, expr |-> expr, expr2 |-> expr2, exprList |-> exprList]

ColumnRef(table, name) ==
    Expr("kExprColumnRef", "kOpNone", table, name, "", 0, nullptr, nullptr, nullptr)

LiteralInt(ival) ==
    Expr("kExprLiteralInt", "kOpNone", "", "", "", ival, nullptr, nullptr, nullptr)

Placeholder == Expr("kExprPlaceholder", "kOpNone", "", "", "", 0, nullptr, nullptr, nullptr)

Star == Expr("kExprStar", "kOpNone", "", "", "", 0, nullptr, nullptr, nullptr)

FunctionRef(name, argument, alias) ==
    Expr("kExprFunctionRef", "kOpNone", "", name, alias, 0, nullptr, nullptr, <<<<argument>>>>)

\* a binary operator expression, and expr BETWEEN exprList[0] AND exprList[1]
Operator(opType, expr, expr2) ==
    Expr("kExprOperator", opType, "", "", "", 0, <<expr>>, <<expr2>>, nullptr)

Between(expr, exprList) ==
    Expr("kExprOperator", "kOpBetween", "", "", "", 0, <<expr>>, nullptr, <<exprList>>)

\* hsql::TableRef, and the ones of type kTableName and of type kTableJoin
TableRef(type, name, alias, select, list, join) ==
    [type |-> type, name |-> name, alias |-> alias, select |-> select, list |-> list,
     join |-> join]

TableName(name) == TableRef("kTableName", name, "", nullptr, nullptr, nullptr)

TableJoin(type, left, right, condition) ==
    TableRef("kTableJoin", "", "", nullptr, nullptr,
             <<[type |-> type, left |-> left, right |-> right, condition |-> condition]>>)

\* hsql::SelectStatement
SelectStatement(fromTable, whereClause, selectList, groupBy, order, limit, unionSelect) ==
    [type |-> "kStmtSelect", fromTable |-> fromTable, whereClause |-> whereClause,
     selectList |-> selectList, groupBy |-> groupBy, order |-> order, limit |-> limit,
     unionSelect |-> unionSelect]

\* hsql::InsertStatement; insertType is its field type, type its type()
InsertStatement(insertType, tableName, columns, values, select) ==
    [type |-> "kStmtInsert", insertType |-> insertType, tableName |-> tableName,
     columns |-> columns, values |-> values, select |-> select]

\* hsql::DeleteStatement
DeleteStatement(tableName, expr) ==
    [type |-> "kStmtDelete", tableName |-> tableName, expr |-> expr]

\* hsql::UpdateClause and hsql::UpdateStatement
UpdateClause(column, value) == [column |-> column, value |-> value]

UpdateStatement(table, updates, where) ==
    [type |-> "kStmtUpdate", table |-> table, updates |-> updates, where |-> where]

\* hsql::ShowStatement; showType is its field type
ShowStatement(showType, name) == [type |-> "kStmtShow", showType |-> showType, name |-> name]

\* ------------------------------------------------- the logical query plan

\* StorageManager: the stored tables and their column names
Tables == [T1 |-> <<"a", "b">>, T2 |-> <<"b", "c">>, T3 |-> <<"d">>]

\* The nodes a translation makes are kept in the sequence nodes; a node is
\* known by its position there (a shared_ptr to it), 0 being the null pointer.
\* A node holds its type, its children, its parameters (data) and its output
\* columns: for each, the ColumnOrigin <<node, column id>>, the name, and the
\* table name that qualifies it.
ColumnOf(columns, column_origin) ==
    IF \E i \in 1..Len(columns) : columns[i].origin = column_origin
    THEN columns[CHOOSE i \in 1..Len(columns) : columns[i].origin = column_origin]
    ELSE [origin |-> column_origin, name |-> "", table |-> ""]

\* what reading an empty std::optional<ColumnOrigin>, or the origin of a column
\* id the node does not output, yields if the program goes on: no node's column
UndefinedOrigin == <<0, 0>>

\* *optional
Deref(optional) == IF optional = <<>> THEN UndefinedOrigin ELSE optional[1]

\* AbstractLQPNode::output_column_count
output_column_count(nodes, node) == Len(nodes[node].columns)

\* AbstractLQPNode::find_column_origin_by_output_column_id
find_column_origin_by_output_column_id(nodes, node, column_id) ==
    IF column_id < Len(nodes[node].columns) THEN nodes[node].columns[column_id + 1].origin
    ELSE UndefinedOrigin

\* AbstractLQPNode::output_column_names
output_column_names(nodes, node) ==
    [i \in 1..Len(nodes[node].columns) |-> nodes[node].columns[i].name]

\* the output columns of a node of the given type, children and parameters
output_columns(nodes, self, type, left_child, right_child, data) ==
    CASE type = "StoredTable" ->
            [i \in 1..Len(Tables[data.table_name]) |->
                [origin |-> <<self, i - 1>>, name |-> Tables[data.table_name][i],
                 table |-> data.table_name]]
      [] type \in {"DummyTable", "ShowTables", "ShowColumns"} -> <<>>
      [] type = "Join" -> nodes[left_child].columns \o nodes[right_child].columns
      [] type = "Projection" ->
            [i \in 1..Len(data.expressions) |->
                LET expression == data.expressions[i]
                    name == IF expression.alias # <<>> THEN expression.alias[1]
                            ELSE IF expression.type = "Column"
                                 THEN ColumnOf(nodes[left_child].columns,
                                               expression.column_origin[1]).name
                                 ELSE expression.type
                IN IF expression.type = "Column"
                   THEN [origin |-> expression.column_origin[1], name |-> name,
                         table |-> ColumnOf(nodes[left_child].columns,
                                            expression.column_origin[1]).table]
                   ELSE [origin |-> <<self, i - 1>>, name |-> name, table |-> ""]]
      [] type = "Aggregate" ->
            [i \in 1..Len(data.groupby_column_origins) |->
                ColumnOf(nodes[left_child].columns, data.groupby_column_origins[i])] \o
            [i \in 1..Len(data.aggregate_expressions) |->
                LET expression == data.aggregate_expressions[i]
                IN [origin |-> <<self, Len(data.groupby_column_origins) + i - 1>>,
                    name |-> IF expression.alias # <<>> THEN expression.alias[1]
                             ELSE expression.aggregate_function[1],
                    table |-> ""]]
      [] OTHER -> nodes[left_child].columns

\* the outcome of a translation step: the nodes made so far and the node
\* returned; a failed Assert or Fail throws its message, and nothing is returned
Made(nodes, node) == [ok |-> TRUE, nodes |-> nodes, node |-> node, error |-> ""]

Fail(message) == [ok |-> FALSE, nodes |-> <<>>, node |-> 0, error |-> message]

\* a failure whose message no property reads
Failed == Fail("error")

\* std::make_shared<...Node>(data) followed by set_left_child, set_right_child
make_node(nodes, type, left_child, right_child, data) ==
    Made(Append(nodes,
                [type |-> type, left_child |-> left_child, right_child |-> right_child,
                 alias |-> <<>>, data |-> data,
                 columns |-> output_columns(nodes, Len(nodes) + 1, type, left_child,
                                            right_child, data)]),
         Len(nodes) + 1)

\* NamedColumnReference{column_name, table_name}
NamedColumnReference(column_name, table_name) ==
    [column_name |-> column_name, table_name |-> table_name]

\* HSQLExprTranslator::to_named_column_reference
to_named_column_reference(hsql_expr) == NamedColumnReference(hsql_expr.name, hsql_expr.table)

\* AbstractLQPNode::find_column_origin_by_named_column_reference: the origin of
\* the one output column of that name (and table name, if given), std::nullopt
\* if there is none; more than one is an ambiguity, a hard error
find_column_origin_by_named_column_reference(nodes, node, named_column_reference) ==
    LET columns == nodes[node].columns
        origins == {columns[i].origin : i \in
                       {i \in 1..Len(columns) :
                           /\ columns[i].name = named_column_reference.column_name
                           /\ named_column_reference.table_name \in {"", columns[i].table}}}
    IN IF Cardinality(origins) > 1 THEN [ok |-> FALSE, column_origin |-> <<>>]
       ELSE IF origins = {} THEN [ok |-> TRUE, column_origin |-> <<>>]
       ELSE [ok |-> TRUE, column_origin |-> <<CHOOSE origin \in origins : TRUE>>]

\* AbstractLQPNode::get_column_origin_by_named_column_reference: the column must exist
get_column_origin_by_named_column_reference(nodes, node, named_column_reference) ==
    LET found == find_column_origin_by_named_column_reference(nodes, node,
                                                              named_column_reference)
    IN [ok |-> found.ok /\ found.column_origin # <<>>, column_origin |-> found.column_origin]

\* AbstractLQPNode::find_output_column_id_by_column_origin
find_output_column_id_by_column_origin(nodes, node, column_origin) ==
    LET columns == nodes[node].columns
        ids == {i \in 1..Len(columns) : columns[i].origin = column_origin}
    IN IF ids = {} THEN <<>> ELSE <<(CHOOSE i \in ids : \A j \in ids : i <= j) - 1>>

\* ---------------------------------------------------------- LQPExpression

\* BaseExpression<LQPExpression>: the fields of an expression; LQPExpression
\* adds the ColumnOrigin of a column reference
LQPExpression(type, value, aggregate_function, table_name, alias, aggregate_function_arguments, column_origin) ==
    [type |-> type, value |-> value, aggregate_function |-> aggregate_function,
     table_name |-> table_name, alias |-> alias, value_placeholder |-> <<>>,
     aggregate_function_arguments |-> aggregate_function_arguments,
     left_child |-> nullptr, right_child |-> nullptr, column_origin |-> column_origin]

\* LQPExpression::create_column
create_column(column_origin, alias) ==
    LQPExpression("Column", <<>>, <<>>, <<>>, alias, <<>>, <<column_origin>>)

\* BaseExpression::create_literal
create_literal(value, alias) ==
    LQPExpression("Literal", <<value>>, <<>>, <<>>, alias, <<>>, <<>>)

\* BaseExpression::create_aggregate_function
create_aggregate_function(aggregate_function, function_arguments, alias) ==
    LQPExpression("Function", <<>>, <<aggregate_function>>, <<>>, alias,
                  function_arguments, <<>>)

\* BaseExpression::create_select_star
create_select_star(table_name) ==
    LQPExpression("Star", <<>>, <<>>, table_name, <<>>, <<>>, <<>>)

\* BaseExpression::create_value_placeholder
create_value_placeholder(value_placeholder) ==
    [LQPExpression("Placeholder", <<>>, <<>>, <<>>, <<>>, <<>>, <<>>)
        EXCEPT !.value_placeholder = <<value_placeholder>>]

\* a char* as std::optional<std::string>
optional_string(str) == IF str = "" THEN <<>> ELSE <<str>>

\* aggregate_function_to_string
AggregateFunctions == {"MIN", "MAX", "SUM", "AVG", "COUNT"}

RECURSIVE to_lqp_expression(_, _, _)
\* HSQLExprTranslator::to_lqp_expression(expr, input_node)
to_lqp_expression(nodes, expr, input_node) ==
    CASE expr.type = "kExprColumnRef" ->
            LET found == IF input_node = 0 THEN [ok |-> FALSE, column_origin |-> <<>>]
                         ELSE get_column_origin_by_named_column_reference(
                                  nodes, input_node, to_named_column_reference(expr))
            IN IF ~found.ok THEN [ok |-> FALSE, expression |-> create_select_star(<<>>)]
               ELSE [ok |-> TRUE,
                     expression |-> create_column(found.column_origin[1],
                                                  optional_string(expr.alias))]
      [] expr.type = "kExprFunctionRef" ->
            LET arguments == [i \in 1..Len(expr.exprList[1]) |->
                                 to_lqp_expression(nodes, expr.exprList[1][i], input_node)]
            IN [ok |-> /\ expr.name \in AggregateFunctions
                       /\ \A i \in 1..Len(arguments) : arguments[i].ok,
                expression |-> create_aggregate_function(
                                   expr.name,
                                   [i \in 1..Len(arguments) |-> arguments[i].expression],
                                   optional_string(expr.alias))]
      [] expr.type = "kExprLiteralInt" ->
            [ok |-> TRUE,
             expression |-> create_literal(AllTypeVariant(expr.ival),
                                           optional_string(expr.alias))]
      [] expr.type = "kExprStar" ->
            [ok |-> TRUE, expression |-> create_select_star(optional_string(expr.table))]
      [] expr.type = "kExprPlaceholder" ->
            [ok |-> TRUE, expression |-> create_value_placeholder(expr.ival)]
      [] OTHER -> [ok |-> FALSE, expression |-> create_select_star(<<>>)]

\* AllParameterVariant: an AllTypeVariant, a ColumnOrigin or a ValuePlaceholder
AllParameterVariant(type, value) == [type |-> type, value |-> value]

is_variant(variant) == variant.type = "AllTypeVariant"

\* HSQLExprTranslator::to_all_parameter_variant(expr), without an input node:
\* a literal or a placeholder; a column cannot be resolved
to_all_parameter_variant(expr) ==
    CASE expr.type = "kExprLiteralInt" ->
            [ok |-> TRUE, value |-> AllParameterVariant("AllTypeVariant",
                                                        AllTypeVariant(expr.ival))]
      [] expr.type = "kExprPlaceholder" ->
            [ok |-> TRUE, value |-> AllParameterVariant("ValuePlaceholder", expr.ival)]
      [] OTHER -> [ok |-> FALSE, value |-> AllParameterVariant("none", 0)]

RECURSIVE operator_equals_RootOnly(_, _)
\* the mutation of operator_equals that leaves the children uncompared
operator_equals_RootOnly(expression, other) ==
    /\ Len(expression.aggregate_function_arguments) = Len(other.aggregate_function_arguments)
    /\ \A expression_list_idx \in 1..Len(expression.aggregate_function_arguments) :
          operator_equals_RootOnly(expression.aggregate_function_arguments[expression_list_idx],
                                   other.aggregate_function_arguments[expression_list_idx])
    /\ expression.type = other.type
    /\ expression.value = other.value
    /\ expression.aggregate_function = other.aggregate_function
    /\ expression.table_name = other.table_name
    /\ expression.alias = other.alias
    /\ expression.column_origin = other.column_origin

RECURSIVE operator_equals(_, _)
\* BaseExpression::operator==, and the ColumnOrigin LQPExpression compares too
operator_equals(expression, other) ==
    LET compare_expression_ptrs(left_pointer, right_pointer) ==
            IF left_pointer # nullptr /\ right_pointer # nullptr
            THEN operator_equals(left_pointer[1], right_pointer[1])
            ELSE left_pointer = right_pointer
    IN /\ compare_expression_ptrs(expression.left_child, other.left_child)
       /\ compare_expression_ptrs(expression.right_child, other.right_child)
       /\ Len(expression.aggregate_function_arguments) =
             Len(other.aggregate_function_arguments)
       /\ \A expression_list_idx \in 1..Len(expression.aggregate_function_arguments) :
             operator_equals(expression.aggregate_function_arguments[expression_list_idx],
                             other.aggregate_function_arguments[expression_list_idx])
       /\ expression.type = other.type
       /\ expression.value = other.value
       /\ expression.aggregate_function = other.aggregate_function
       /\ expression.table_name = other.table_name
       /\ expression.alias = other.alias
       /\ expression.column_origin = other.column_origin

\* ------------------------------------------- BaseExpression: the objects
\* The expression objects live in a sequence, an object known by its position
\* there. In an object a shared_ptr is a pointer to a position (nullptr or
\* <<position>>) and _aggregate_function_arguments a sequence of positions.

\* BaseExpression::create_binary_operator; the Assert holds of the types used
create_binary_operator(type, left, right, alias) ==
    [LQPExpression(type, <<>>, <<>>, <<>>, alias, <<>>, <<>>)
        EXCEPT !.left_child = left, !.right_child = right]

\* BaseExpression::create_unary_operator; the Assert holds of the types used
create_unary_operator(type, input, alias) ==
    [LQPExpression(type, <<>>, <<>>, <<>>, alias, <<>>, <<>>) EXCEPT !.left_child = input]

\* BaseExpression::set_left_child
set_left_child(objects, expression, left) ==
    [objects EXCEPT ![expression].left_child = left]

\* BaseExpression::set_right_child
set_right_child(objects, expression, right) ==
    [objects EXCEPT ![expression].right_child = right]

\* BaseExpression::set_alias(alias)
BaseExpression_set_alias(objects, expression, alias) ==
    [objects EXCEPT ![expression].alias = <<alias>>]

RECURSIVE dereference(_, _)
\* *expression: the object with the objects its pointers lead to in their place
dereference(objects, expression) ==
    [objects[expression] EXCEPT
        !.left_child = IF @ = nullptr THEN nullptr ELSE <<dereference(objects, @[1])>>,
        !.right_child = IF @ = nullptr THEN nullptr ELSE <<dereference(objects, @[1])>>,
        !.aggregate_function_arguments = [i \in 1..Len(@) |-> dereference(objects, @[i])]]

RECURSIVE make_shared(_, _)
RECURSIVE make_shared_all(_, _, _)
\* the expression tree built bottom up by the create_ functions: every
\* expression of it is an object of its own
make_shared(objects, tree) ==
    LET arguments == make_shared_all(objects, tree.aggregate_function_arguments, <<>>)
        left(made) == IF tree.left_child = nullptr THEN [objects |-> made, expressions |-> <<>>]
                      ELSE make_shared_all(made, tree.left_child, <<>>)
        right(made) == IF tree.right_child = nullptr THEN [objects |-> made, expressions |-> <<>>]
                       ELSE make_shared_all(made, tree.right_child, <<>>)
        root(l, r) ==
            [objects |-> Append(r.objects,
                                [tree EXCEPT !.aggregate_function_arguments = arguments.expressions,
                                             !.left_child = l.expressions,
                                             !.right_child = r.expressions]),
             expression |-> Len(r.objects) + 1]
        children(l) == root(l, right(l.objects))
    IN  children(left(arguments.objects))

make_shared_all(objects, trees, expressions) ==
    IF trees = <<>> THEN [objects |-> objects, expressions |-> expressions]
    ELSE LET made == make_shared(objects, Head(trees))
         IN  make_shared_all(made.objects, Tail(trees), Append(expressions, made.expression))

\* the mutation of deep_copy that copies the pointers and not the objects
deep_copy_Shallow(objects, expression) ==
    [objects |-> Append(objects, objects[expression]), expression |-> Len(objects) + 1]

RECURSIVE deep_copy(_, _)
RECURSIVE deep_copy_arguments(_, _, _)
\* BaseExpression::deep_copy of the object expression: the objects with the
\* copies made, and the copy
deep_copy(objects, expression) ==
    LET original == objects[expression]
        copy == Len(objects) + 1
        made == Append(objects,
                       [LQPExpression(original.type, original.value,
                                      original.aggregate_function, original.table_name,
                                      original.alias, <<>>, <<>>)
                           EXCEPT !.value_placeholder = original.value_placeholder])
        left(copied) ==
            IF original.left_child = nullptr THEN copied
            ELSE LET child == deep_copy(copied, original.left_child[1])
                 IN  set_left_child(child.objects, copy, <<child.expression>>)
        right(copied) ==
            IF original.right_child = nullptr THEN copied
            ELSE LET child == deep_copy(copied, original.right_child[1])
                 IN  set_right_child(child.objects, copy, <<child.expression>>)
    IN  [objects |-> right(left(deep_copy_arguments(made, copy,
                                                   original.aggregate_function_arguments))),
         expression |-> copy]

\* the loop of deep_copy over _aggregate_function_arguments
deep_copy_arguments(objects, copy, arguments) ==
    IF arguments = <<>> THEN objects
    ELSE LET argument == deep_copy(objects, Head(arguments))
         IN  deep_copy_arguments(
                 [argument.objects EXCEPT
                     ![copy].aggregate_function_arguments = Append(@, argument.expression)],
                 copy, Tail(arguments))

\* ----------------------------------------------------------- SQLTranslator

\* translate_operator_type_to_scan_type; an operator the map does not hold
\* fails the DebugAssert
translate_operator_type_to_scan_type(operator_type) ==
    CASE operator_type = "kOpEquals" -> "OpEquals"
      [] operator_type = "kOpNotEquals" -> "OpNotEquals"
      [] operator_type = "kOpGreater" -> "OpGreaterThan"
      [] operator_type = "kOpGreaterEq" -> "OpGreaterThanEquals"
      [] operator_type = "kOpLess" -> "OpLessThan"
      [] operator_type = "kOpLessEq" -> "OpLessThanEquals"
      [] operator_type = "kOpBetween" -> "OpBetween"
      [] operator_type = "kOpLike" -> "OpLike"
      [] operator_type = "kOpNotLike" -> "OpNotLike"
      [] OTHER -> "unsupported"

\* the mutation of get_scan_type_for_reverse_order that keeps every scan type
get_scan_type_for_reverse_order_Same(scan_type) == scan_type

get_scan_type_for_reverse_order(scan_type) ==
    CASE scan_type = "OpGreaterThan" -> "OpLessThan"
      [] scan_type = "OpLessThan" -> "OpGreaterThan"
      [] scan_type = "OpGreaterThanEquals" -> "OpLessThanEquals"
      [] scan_type = "OpLessThanEquals" -> "OpGreaterThanEquals"
      [] OTHER -> scan_type

\* the mutation of _validate_if_active that validates whatever the flag is
_validate_if_active_Always(nodes, input_node, _validate) ==
    make_node(nodes, "Validate", input_node, 0, <<>>)

\* SQLTranslator::_validate_if_active
_validate_if_active(nodes, input_node, _validate) ==
    IF ~_validate THEN Made(nodes, input_node)
    ELSE make_node(nodes, "Validate", input_node, 0, <<>>)

\* HSQLExprTranslator::to_column_origin(hsql_expr, input_node)
to_column_origin(nodes, hsql_expr, input_node) ==
    get_column_origin_by_named_column_reference(nodes, input_node,
                                                to_named_column_reference(hsql_expr))

\* the lambda refers_to_column of _translate_predicate
refers_to_column(hsql_expr, allow_function_columns) ==
    \/ hsql_expr.type = "kExprColumnRef"
    \/ (allow_function_columns /\ hsql_expr.type = "kExprFunctionRef")

\* the mutation of _translate_predicate's BETWEEN branch that engages no value2
value2_Nullopt(value2_all_parameter_variant) == <<>>

\* "value2 = boost::get<AllTypeVariant>(value2_all_parameter_variant)"
value2_of(value2_all_parameter_variant) == <<value2_all_parameter_variant.value>>

\* the operand expressions of a predicate that its translation may resolve
predicate_operands(hsql_expr) ==
    LET elements(list) == {list[i] : i \in 1..Len(list)}
    IN elements(hsql_expr.expr) \cup elements(hsql_expr.expr2)
           \cup (IF hsql_expr.exprList = nullptr THEN {}
                 ELSE elements(hsql_expr.exprList[1]))

\* SQLTranslator::_translate_predicate; resolve_column[hsql_expr] gives the
\* ColumnOrigin of a column or aggregate, or fails
_translate_predicate(hsql_expr, allow_function_columns, resolve_column, input_node, nodes) ==
    LET scan_type == translate_operator_type_to_scan_type(hsql_expr.opType)
        \* from "AllParameterVariant value;" to the end of the function
        make_predicate(final_scan_type, operands_switched, value_ref_hsql_expr, value2) ==
            LET value == IF refers_to_column(value_ref_hsql_expr, allow_function_columns)
                         THEN LET resolved == resolve_column[value_ref_hsql_expr]
                              IN [ok |-> resolved.ok,
                                  value |-> AllParameterVariant(
                                                "ColumnOrigin", Deref(resolved.column_origin))]
                         ELSE to_all_parameter_variant(value_ref_hsql_expr)
                column_id == resolve_column[IF operands_switched THEN hsql_expr.expr2[1]
                                            ELSE hsql_expr.expr[1]]
            IN IF ~value.ok \/ ~column_id.ok THEN Failed
               ELSE make_node(nodes, "Predicate", input_node, 0,
                              [column_origin |-> column_id.column_origin[1],
                               scan_type |-> final_scan_type,
                               value |-> value.value, value2 |-> value2])
    IN IF hsql_expr.expr = nullptr \/ scan_type = "unsupported" THEN Failed
       ELSE IF scan_type = "OpBetween"
       THEN IF hsql_expr.exprList = nullptr \/ Len(hsql_expr.exprList[1]) # 2 THEN Failed
            ELSE LET expr0 == hsql_expr.exprList[1][1]
                     expr1 == hsql_expr.exprList[1][2]
                     value2_all_parameter_variant == to_all_parameter_variant(expr1)
                 IN IF ~value2_all_parameter_variant.ok THEN Failed
                    ELSE IF ~is_variant(value2_all_parameter_variant.value) THEN Failed
                    ELSE IF ~refers_to_column(hsql_expr.expr[1], allow_function_columns)
                    THEN Failed
                    ELSE make_predicate(scan_type, FALSE, expr0,
                                        value2_of(value2_all_parameter_variant.value))
       ELSE IF hsql_expr.expr2 = nullptr THEN Failed
       ELSE IF ~refers_to_column(hsql_expr.expr[1], allow_function_columns)
       THEN IF ~refers_to_column(hsql_expr.expr2[1], allow_function_columns) THEN Failed
            ELSE make_predicate(get_scan_type_for_reverse_order(scan_type), TRUE,
                                hsql_expr.expr[1], <<>>)
       ELSE make_predicate(scan_type, FALSE, hsql_expr.expr2[1], <<>>)

RECURSIVE _translate_where_OrChained(_, _, _)
\* the mutation of _translate_where that builds the right side of an OR on
\* top of the left side
_translate_where_OrChained(expr, input_node, nodes) ==
    IF expr.opType \in {"kOpOr", "kOpAnd"}
    THEN LET left == _translate_where_OrChained(expr.expr[1], input_node, nodes)
         IN IF ~left.ok THEN Failed
            ELSE LET right == _translate_where_OrChained(expr.expr2[1], left.node,
                                                         left.nodes)
                 IN IF ~right.ok \/ expr.opType = "kOpAnd" THEN right
                    ELSE make_node(right.nodes, "Union", left.node, right.node,
                                   [union_mode |-> "Positions"])
    ELSE _translate_predicate(expr, FALSE,
                              [hsql_expr \in predicate_operands(expr) |->
                                  to_column_origin(nodes, hsql_expr, input_node)],
                              input_node, nodes)

RECURSIVE _translate_where(_, _, _)
\* SQLTranslator::_translate_where
_translate_where(expr, input_node, nodes) ==
    IF expr.opType = "kOpOr"
    THEN LET left == _translate_where(expr.expr[1], input_node, nodes)
         IN IF ~left.ok THEN Failed
            ELSE LET right == _translate_where(expr.expr2[1], input_node, left.nodes)
                 IN IF ~right.ok THEN Failed
                    ELSE make_node(right.nodes, "Union", left.node, right.node,
                                   [union_mode |-> "Positions"])
    ELSE IF expr.opType = "kOpAnd"
    THEN LET filter_node == _translate_where(expr.expr[1], input_node, nodes)
         IN IF ~filter_node.ok THEN Failed
            ELSE _translate_where(expr.expr2[1], filter_node.node, filter_node.nodes)
    ELSE _translate_predicate(expr, FALSE,
                              [hsql_expr \in predicate_operands(expr) |->
                                  to_column_origin(nodes, hsql_expr, input_node)],
                              input_node, nodes)

\* AbstractLQPNode::set_alias: the alias, if any, is the table name of the
\* node's output columns from then on
set_alias(translated, alias) ==
    IF ~translated.ok \/ alias = <<>> THEN translated
    ELSE Made([translated.nodes EXCEPT
                  ![translated.node].alias = alias,
                  ![translated.node].columns =
                      [i \in 1..Len(@) |-> [@[i] EXCEPT !.table = alias[1]]]],
              translated.node)

\* LQPExpression::create_columns
create_columns(column_origins) ==
    [i \in 1..Len(column_origins) |-> create_column(column_origins[i], <<>>)]

\* SQLTranslator::_translate_projection
_translate_projection(select_list, input_node, nodes) ==
    LET translated == [i \in 1..Len(select_list) |->
                          to_lqp_expression(nodes, select_list[i], input_node)]
        columns == nodes[input_node].columns
        \* the columns `*` or `prefix.*` stands for
        star_column_origins(expr) ==
            Concat([column_idx \in 1..Len(columns) |->
                       IF expr.table_name = <<>> \/ columns[column_idx].table = expr.table_name[1]
                       THEN <<columns[column_idx].origin>> ELSE <<>>])
        origin_node_found(expr) ==
            \/ expr.table_name = <<>>
            \/ \E column_idx \in 1..Len(columns) : columns[column_idx].table = expr.table_name[1]
    IN IF \E i \in 1..Len(translated) :
             \/ ~translated[i].ok
             \/ translated[i].expression.type \notin {"Star", "Column", "Literal"}
             \/ (translated[i].expression.type = "Star"
                    /\ ~origin_node_found(translated[i].expression))
       THEN Failed
       ELSE make_node(nodes, "Projection", input_node, 0,
                      [expressions |->
                          Concat([i \in 1..Len(translated) |->
                                     IF translated[i].expression.type = "Star"
                                     THEN create_columns(
                                              star_column_origins(translated[i].expression))
                                     ELSE <<translated[i].expression>>])])

\* the mutation of _translate_order_by that makes a SortNode of an empty list too
_translate_order_by_SortsEmpty(order_list, input_node, nodes) ==
    LET column_origins == [i \in 1..Len(order_list) |->
                              to_column_origin(nodes, order_list[i].expr, input_node)]
    IN IF \E i \in 1..Len(order_list) :
             \/ order_list[i].expr.type # "kExprColumnRef"
             \/ ~column_origins[i].ok
       THEN Failed
       ELSE make_node(nodes, "Sort", input_node, 0,
                      [order_by_definitions |->
                          [i \in 1..Len(order_list) |->
                              [column_origin |-> column_origins[i].column_origin[1],
                               order_by_mode |-> order_list[i].type]]])

\* SQLTranslator::_translate_order_by
_translate_order_by(order_list, input_node, nodes) ==
    IF order_list = <<>> THEN Made(nodes, input_node)
    ELSE LET column_origins == [i \in 1..Len(order_list) |->
                                   to_column_origin(nodes, order_list[i].expr, input_node)]
         IN IF \E i \in 1..Len(order_list) :
                  \/ order_list[i].expr.type # "kExprColumnRef"
                  \/ ~column_origins[i].ok
            THEN Failed
            ELSE make_node(nodes, "Sort", input_node, 0,
                           [order_by_definitions |->
                               [i \in 1..Len(order_list) |->
                                   [column_origin |-> column_origins[i].column_origin[1],
                                    order_by_mode |-> order_list[i].type]]])

\* SQLTranslator::_translate_limit
_translate_limit(limit, input_node, nodes) ==
    make_node(nodes, "Limit", input_node, 0, [num_rows |-> limit.limit])

\* translate_join_type_to_join_mode
translate_join_type_to_join_mode(join_type) ==
    CASE join_type = "kJoinInner" -> "Inner"
      [] join_type = "kJoinOuter" -> "Outer"
      [] join_type \in {"kJoinLeft", "kJoinLeftOuter"} -> "Left"
      [] join_type \in {"kJoinRight", "kJoinRightOuter"} -> "Right"
      [] join_type = "kJoinNatural" -> "Natural"
      [] join_type = "kJoinCross" -> "Cross"
      [] OTHER -> "unsupported"

\* JoinNode(join_mode, join_column_origins, scan_type); JoinNode(JoinMode::Cross)
\* has neither column origins nor a scan type
JoinNode(join_mode, join_column_origins, scan_type) ==
    [join_mode |-> join_mode, join_column_origins |-> join_column_origins,
     scan_type |-> scan_type]

\* the column names in the order of std::string's operator<
SortedColumnNames == <<"a", "b", "c", "d">>

CountOf(names, name) == Cardinality({i \in 1..Len(names) : names[i] = name})

\* std::sort of a vector of column names
sort(names) ==
    Concat([rank \in 1..Len(SortedColumnNames) |->
               [k \in 1..CountOf(names, SortedColumnNames[rank]) |-> SortedColumnNames[rank]]])

\* std::set_intersection of two sorted vectors of column names: a name that is
\* m times in the one and n times in the other is min(m, n) times in the result
set_intersection(left_names, right_names) ==
    Concat([rank \in 1..Len(SortedColumnNames) |->
               LET m == CountOf(left_names, SortedColumnNames[rank])
                   n == CountOf(right_names, SortedColumnNames[rank])
               IN [k \in 1..Min(m, n) |-> SortedColumnNames[rank]]])

RECURSIVE natural_join_predicates(_, _, _, _, _)
\* the loop of _translate_natural_join over join_column_names: one
\* PredicateNode per name on top of return_node
natural_join_predicates(join_column_names, left_node, right_node, return_node, nodes) ==
    IF join_column_names = <<>> THEN Made(nodes, return_node)
    ELSE LET join_column_name == Head(join_column_names)
             left_column_origin == get_column_origin_by_named_column_reference(
                                       nodes, left_node,
                                       NamedColumnReference(join_column_name, ""))
             right_column_origin == get_column_origin_by_named_column_reference(
                                        nodes, right_node,
                                        NamedColumnReference(join_column_name, ""))
         IN IF ~left_column_origin.ok \/ ~right_column_origin.ok THEN Failed
            ELSE LET predicate ==
                         make_node(nodes, "Predicate", return_node, 0,
                                   [column_origin |-> left_column_origin.column_origin[1],
                                    scan_type |-> "OpEquals",
                                    value |-> AllParameterVariant(
                                                  "ColumnOrigin",
                                                  right_column_origin.column_origin[1]),
                                    value2 |-> <<>>])
                 IN natural_join_predicates(Tail(join_column_names), left_node, right_node,
                                            predicate.node, predicate.nodes)

RECURSIVE _translate_table_ref(_, _, _)
RECURSIVE _translate_select(_, _, _)

\* SQLTranslator::_translate_natural_join
_translate_natural_join(join, nodes, _validate) ==
    LET \* from "const auto& left_column_names" to the end of the function
        join_on_common_columns(left_node, right_node) ==
            LET left_column_names ==
                    sort(output_column_names(right_node.nodes, left_node.node))
                right_column_names ==
                    sort(output_column_names(right_node.nodes, right_node.node))
                join_column_names == set_intersection(left_column_names, right_column_names)
                \* the ProjectionNode that is to remove the duplicate columns
                projection(return_node) ==
                    LET columns == return_node.nodes[return_node.node].columns
                        \* the origins of the output columns, each one once
                        column_origins ==
                            Concat([column_id \in 1..Len(columns) |->
                                       IF \E earlier \in 1..(column_id - 1) :
                                             columns[earlier].origin
                                                 = columns[column_id].origin
                                       THEN <<>> ELSE <<columns[column_id].origin>>])
                    IN IF ~return_node.ok THEN Failed
                       ELSE make_node(return_node.nodes, "Projection", return_node.node, 0,
                                      [expressions |-> create_columns(column_origins)])
                predicates(cross) ==
                    projection(natural_join_predicates(join_column_names, left_node.node,
                                                       right_node.node, cross.node,
                                                       cross.nodes))
            IN IF ~left_node.ok \/ ~right_node.ok \/ join_column_names = <<>> THEN Failed
               ELSE predicates(make_node(right_node.nodes, "Join", left_node.node,
                                         right_node.node, JoinNode("Cross", <<>>, <<>>)))
        translate_right(left_node) ==
            join_on_common_columns(
                left_node, _translate_table_ref(join.right, left_node.nodes, _validate))
    IN translate_right(_translate_table_ref(join.left, nodes, _validate))

\* the mutation of the check of an operand that takes one in both inputs too
xor_Or(in_left_node, in_right_node) == in_left_node \/ in_right_node

\* "static_cast<bool>(x_in_left_node) ^ static_cast<bool>(x_in_right_node)"
xor(in_left_node, in_right_node) == in_left_node # in_right_node

\* SQLTranslator::_translate_join
_translate_join(join, nodes, _validate) ==
    LET \* from "const hsql::Expr& condition = *join.condition" to the end
        join_on_condition(left_node, right_node) ==
            LET condition == join.condition[1]
                find(node, hsql_expr) ==
                    find_column_origin_by_named_column_reference(
                        right_node.nodes, node, to_named_column_reference(hsql_expr))
                left_in_left_node == find(left_node.node, condition.expr[1])
                left_in_right_node == find(right_node.node, condition.expr[1])
                right_in_left_node == find(left_node.node, condition.expr2[1])
                right_in_right_node == find(right_node.node, condition.expr2[1])
                engaged(found) == found.column_origin # <<>>
            IN IF ~left_node.ok \/ ~right_node.ok \/ join.condition = nullptr THEN Failed
               ELSE IF condition.type # "kExprOperator" THEN Failed
               ELSE IF condition.opType \notin {"kOpEquals", "kOpNotEquals", "kOpLess",
                                                "kOpLessEq", "kOpGreater", "kOpGreaterEq"}
               THEN Failed
               ELSE IF condition.expr = nullptr \/ condition.expr[1].type # "kExprColumnRef"
               THEN Failed
               ELSE IF \/ condition.expr2 = nullptr
                       \/ condition.expr2[1].type # "kExprColumnRef"
               THEN Failed
               ELSE IF \/ ~left_in_left_node.ok \/ ~left_in_right_node.ok
                       \/ ~right_in_left_node.ok \/ ~right_in_right_node.ok
               THEN Failed
               ELSE IF ~xor(engaged(left_in_left_node), engaged(left_in_right_node))
               THEN Failed
               ELSE IF ~xor(engaged(right_in_left_node), engaged(right_in_right_node))
               THEN Failed
               ELSE make_node(right_node.nodes, "Join", left_node.node, right_node.node,
                              JoinNode(translate_join_type_to_join_mode(join.type),
                                       IF engaged(left_in_left_node)
                                       THEN <<Deref(left_in_left_node.column_origin),
                                              Deref(right_in_right_node.column_origin)>>
                                       ELSE <<Deref(left_in_right_node.column_origin),
                                              Deref(right_in_left_node.column_origin)>>,
                                       <<translate_operator_type_to_scan_type(
                                             condition.opType)>>))
        translate_right(left_node) ==
            join_on_condition(
                left_node, _translate_table_ref(join.right, left_node.nodes, _validate))
    IN IF translate_join_type_to_join_mode(join.type) = "Natural"
       THEN _translate_natural_join(join, nodes, _validate)
       ELSE translate_right(_translate_table_ref(join.left, nodes, _validate))

RECURSIVE _translate_cross_product(_, _, _)
\* SQLTranslator::_translate_cross_product: the product of all but the last
\* table, then the last table, then the JoinNode on top of both
_translate_cross_product(tables, nodes, _validate) ==
    LET join(product, next_node) ==
            IF ~product.ok \/ ~next_node.ok THEN Failed
            ELSE make_node(next_node.nodes, "Join", product.node, next_node.node,
                           JoinNode("Cross", <<>>, <<>>))
        translate_next(product) ==
            join(product, _translate_table_ref(tables[Len(tables)], product.nodes,
                                               _validate))
    IN IF Len(tables) = 0 THEN Failed
       ELSE IF Len(tables) = 1 THEN _translate_table_ref(tables[1], nodes, _validate)
       ELSE translate_next(_translate_cross_product(SubSeq(tables, 1, Len(tables) - 1),
                                                    nodes, _validate))

\* SQLTranslator::_translate_table_ref of a table of type kTableName;
\* StoredTableNode needs a stored table
_translate_table_name(table, nodes, _validate) ==
    LET validate_stored_table(stored_table_node) ==
            _validate_if_active(stored_table_node.nodes, stored_table_node.node, _validate)
    IN set_alias(IF table.name \notin DOMAIN Tables THEN Failed
                 ELSE validate_stored_table(make_node(nodes, "StoredTable", 0, 0,
                                                      [table_name |-> table.name])),
                 optional_string(table.alias))

\* SQLTranslator::_translate_table_ref
_translate_table_ref(table, nodes, _validate) ==
    LET alias == optional_string(table.alias)
        \* "Every derived table must have its own alias"
        derived_table(select) == IF select.ok /\ alias = <<>> THEN Failed ELSE select
    IN IF table.type = "kTableName" THEN _translate_table_name(table, nodes, _validate)
       ELSE set_alias(
           CASE table.type = "kTableSelect" ->
                  derived_table(_translate_select(table.select[1], nodes, _validate))
             [] table.type = "kTableJoin" ->
                  _translate_join(table.join[1], nodes, _validate)
             [] table.type = "kTableCrossProduct" ->
                  _translate_cross_product(table.list[1], nodes, _validate)
             [] OTHER -> Failed,
           alias)

\* AggregateNode::get_column_origin_for_expression: the output column of the
\* aggregate expression equal to the given one, or the group-by column it is
get_column_origin_for_expression(nodes, aggregate_node, expression) ==
    LET data == nodes[aggregate_node].data
        equal == {i \in 1..Len(data.aggregate_expressions) :
                     operator_equals(data.aggregate_expressions[i], expression)}
    IN IF equal # {}
       THEN [ok |-> TRUE,
             column_origin |->
                 <<<<aggregate_node,
                     Len(data.groupby_column_origins)
                         + (CHOOSE i \in equal : \A j \in equal : i <= j) - 1>>>>]
       ELSE IF /\ expression.type = "Column"
               /\ \E i \in 1..Len(data.groupby_column_origins) :
                     data.groupby_column_origins[i] = expression.column_origin[1]
       THEN [ok |-> TRUE, column_origin |-> expression.column_origin]
       ELSE [ok |-> FALSE, column_origin |-> <<>>]

RECURSIVE _translate_having(_, _, _, _)
\* SQLTranslator::_translate_having
_translate_having(expr, aggregate_node, input_node, nodes) ==
    IF expr.opType = "kOpOr"
    THEN LET left == _translate_having(expr.expr[1], aggregate_node, input_node, nodes)
         IN IF ~left.ok THEN Failed
            ELSE LET right == _translate_having(expr.expr2[1], aggregate_node, input_node,
                                                left.nodes)
                 IN IF ~right.ok THEN Failed
                    ELSE make_node(right.nodes, "Union", left.node, right.node,
                                   [union_mode |-> "Positions"])
    ELSE IF expr.opType = "kOpAnd"
    THEN LET filter_node == _translate_having(expr.expr[1], aggregate_node, input_node,
                                              nodes)
         IN IF ~filter_node.ok THEN Failed
            ELSE _translate_having(expr.expr2[1], aggregate_node, filter_node.node,
                                   filter_node.nodes)
    ELSE _translate_predicate(
             expr, TRUE,
             [hsql_expr \in predicate_operands(expr) |->
                 LET column_operand_expression ==
                         to_lqp_expression(nodes, hsql_expr,
                                           nodes[aggregate_node].left_child)
                 IN IF ~column_operand_expression.ok
                    THEN [ok |-> FALSE, column_origin |-> <<>>]
                    ELSE get_column_origin_for_expression(
                             nodes, aggregate_node, column_operand_expression.expression)],
             input_node, nodes)

RECURSIVE _retrieve_having_aggregates(_, _, _)
\* SQLTranslator::_retrieve_having_aggregates
_retrieve_having_aggregates(nodes, expr, input_node) ==
    IF expr.type = "kExprFunctionRef"
    THEN LET translated == to_lqp_expression(nodes, expr, input_node)
         IN [ok |-> translated.ok,
             expressions |-> IF translated.expression.type = "Function"
                             THEN <<translated.expression>> ELSE <<>>]
    ELSE LET left_expressions ==
                 IF expr.expr # nullptr
                 THEN _retrieve_having_aggregates(nodes, expr.expr[1], input_node)
                 ELSE [ok |-> TRUE, expressions |-> <<>>]
             right_expressions ==
                 IF expr.expr2 # nullptr
                 THEN _retrieve_having_aggregates(nodes, expr.expr2[1], input_node)
                 ELSE [ok |-> TRUE, expressions |-> <<>>]
         IN [ok |-> left_expressions.ok /\ right_expressions.ok,
             expressions |-> left_expressions.expressions \o right_expressions.expressions]

\* the mutation of the loop over the select list that takes every column when
\* there is a GROUP BY
select_item_error_AnyColumn(select_column_hsql_expr, has_group_by, resolved) ==
    CASE select_column_hsql_expr.type = "kExprFunctionRef" ->
            IF resolved THEN "" ELSE "error"
      [] select_column_hsql_expr.type = "kExprColumnRef" ->
            IF ~has_group_by
            THEN "SELECT list of aggregate contains a column, but the query does not have a GROUP BY clause."
            ELSE ""
      [] OTHER -> "Unsupported item in projection list for AggregateOperator."

\* what the loop of _translate_aggregate over the select list throws at an
\* item, "" if nothing: resolved tells that the aggregate was translated, or
\* that the column is one of the GROUP BY columns (the message leaves out the
\* column's name)
select_item_error(select_column_hsql_expr, has_group_by, resolved) ==
    CASE select_column_hsql_expr.type = "kExprFunctionRef" ->
            IF resolved THEN "" ELSE "error"
      [] select_column_hsql_expr.type = "kExprColumnRef" ->
            IF ~has_group_by
            THEN "SELECT list of aggregate contains a column, but the query does not have a GROUP BY clause."
            ELSE IF ~resolved
            THEN "Column is specified in SELECT list, but not in GROUP BY clause."
            ELSE ""
      [] OTHER -> "Unsupported item in projection list for AggregateOperator."

\* SQLTranslator::_translate_aggregate; a failed DebugAssert ends the
\* translation like a failed Assert
_translate_aggregate(select, input_node, nodes) ==
    LET select_list == select.selectList
        group_by == select.groupBy
        has_having == group_by # nullptr /\ group_by[1].having # nullptr
        input_columns == nodes[input_node].columns
        \* the select columns that give an alias to a column of the input
        aliasing == {i \in 1..Len(select_list) :
                        select_list[i].type = "kExprColumnRef" /\ select_list[i].alias # ""}
        aliased_column_origin(i) ==
            get_column_origin_by_named_column_reference(
                nodes, input_node, to_named_column_reference(select_list[i]))
        groupby_aliasing_expressions ==
            [input_column_id \in 1..Len(input_columns) |->
                LET setting == {i \in aliasing :
                                   /\ aliased_column_origin(i).ok
                                   /\ find_output_column_id_by_column_origin(
                                          nodes, input_node,
                                          aliased_column_origin(i).column_origin[1])
                                      = <<input_column_id - 1>>}
                IN create_column(
                       input_columns[input_column_id].origin,
                       IF setting = {} THEN <<>>
                       ELSE <<select_list[CHOOSE i \in setting :
                                             \A j \in setting : j <= i].alias>>)]
        groupby_columns == IF group_by = nullptr THEN <<>> ELSE group_by[1].columns
        is_function(i) == select_list[i].type = "kExprFunctionRef"
        select_aggregate(i) == to_lqp_expression(nodes, select_list[i], input_node)
        select_aggregate_expressions ==
            Concat([i \in 1..Len(select_list) |->
                       IF is_function(i) THEN <<select_aggregate(i).expression>> ELSE <<>>])
        \* a HAVING aggregate is added unless an equal one is in the list by then
        aggregate_expressions(having_expressions) ==
            select_aggregate_expressions \o
            Concat([k \in 1..Len(having_expressions) |->
                       IF \/ \E i \in 1..Len(select_aggregate_expressions) :
                                operator_equals(select_aggregate_expressions[i],
                                                having_expressions[k])
                          \/ \E j \in 1..(k - 1) :
                                operator_equals(having_expressions[j], having_expressions[k])
                       THEN <<>> ELSE <<having_expressions[k]>>])
        \* from "std::vector<ColumnOrigin> groupby_column_origins" to the AggregateNode
        aggregate(groupby_aliasing_node, having_expressions) ==
            LET find_in_aliasing_node(hsql_expr) ==
                    find_column_origin_by_named_column_reference(
                        groupby_aliasing_node.nodes, groupby_aliasing_node.node,
                        to_named_column_reference(hsql_expr))
                groupby_column_origins ==
                    [i \in 1..Len(groupby_columns) |->
                        Deref(find_in_aliasing_node(groupby_columns[i]).column_origin)]
                engaged(column_origin) ==
                    column_origin.ok /\ column_origin.column_origin # <<>>
                select_column_ok(column_origin) ==
                    /\ column_origin.ok /\ column_origin.column_origin # <<>>
                    /\ \E g \in 1..Len(groupby_column_origins) :
                          groupby_column_origins[g] = column_origin.column_origin[1]
                \* (column id, alias) of the select items, the aggregates counted
                \* from current_aggregate_column_id on
                output_columns_ ==
                    [i \in 1..Len(select_list) |->
                        [column_id |->
                            IF is_function(i)
                            THEN Len(groupby_columns)
                                     + Cardinality({j \in 1..(i - 1) : is_function(j)})
                            ELSE find_output_column_id_by_column_origin(
                                     groupby_aliasing_node.nodes, groupby_aliasing_node.node,
                                     find_in_aliasing_node(select_list[i]).column_origin[1])[1],
                         alias |-> optional_string(select_list[i].alias)]]
                column_error(i, column_origin) ==
                    IF /\ select_list[i].type = "kExprColumnRef" /\ group_by # nullptr
                       /\ column_origin.column_origin = <<>>
                    THEN "Couldn't resolve groupby column."
                    ELSE select_item_error(select_list[i], group_by # nullptr,
                                           select_column_ok(column_origin))
                item_error(i) ==
                    IF is_function(i)
                    THEN select_item_error(select_list[i], group_by # nullptr,
                                           select_aggregate(i).ok)
                    ELSE column_error(i, find_in_aliasing_node(select_list[i]))
                first_error(rejected) ==
                    item_error(CHOOSE i \in rejected : \A j \in rejected : i <= j)
                \* the ProjectionNode on top of the AggregateNode and of HAVING
                projection(aggregate_node, having_node) ==
                    IF ~having_node.ok THEN Failed
                    ELSE make_node(
                             having_node.nodes, "Projection", having_node.node, 0,
                             [expressions |->
                                 [i \in 1..Len(select_list) |->
                                     create_column(
                                         find_column_origin_by_output_column_id(
                                             aggregate_node.nodes, aggregate_node.node,
                                             output_columns_[i].column_id),
                                         output_columns_[i].alias)]])
                having(aggregate_node) ==
                    projection(aggregate_node,
                               IF has_having
                               THEN _translate_having(group_by[1].having[1],
                                                      aggregate_node.node,
                                                      aggregate_node.node,
                                                      aggregate_node.nodes)
                               ELSE aggregate_node)
                select_items(rejected) ==
                    IF rejected # {} THEN Fail(first_error(rejected))
                    ELSE IF ~having_expressions.ok THEN Failed
                    ELSE having(make_node(
                                    groupby_aliasing_node.nodes, "Aggregate", input_node, 0,
                                    [aggregate_expressions |->
                                         aggregate_expressions(having_expressions.expressions),
                                     groupby_column_origins |-> groupby_column_origins]))
            IN IF \E i \in 1..Len(groupby_columns) :
                     \/ groupby_columns[i].type # "kExprColumnRef"
                     \/ ~engaged(find_in_aliasing_node(groupby_columns[i]))
               THEN Failed
               ELSE select_items({i \in 1..Len(select_list) : item_error(i) # ""})
    IN IF \E i \in aliasing : ~aliased_column_origin(i).ok THEN Failed
       ELSE aggregate(make_node(nodes, "Projection", input_node, 0,
                                [expressions |-> groupby_aliasing_expressions]),
                      IF has_having
                      THEN _retrieve_having_aggregates(nodes, group_by[1].having[1],
                                                       input_node)
                      ELSE [ok |-> TRUE, expressions |-> <<>>])

\* SQLTranslator::_translate_select
_translate_select(select, nodes, _validate) ==
    LET is_aggregate ==
            \/ select.groupBy # nullptr
            \/ \E i \in 1..Len(select.selectList) :
                  select.selectList[i].type = "kExprFunctionRef"
        limit(current_result_node) ==
            IF current_result_node.ok /\ select.limit # nullptr
            THEN _translate_limit(select.limit[1], current_result_node.node,
                                  current_result_node.nodes)
            ELSE current_result_node
        order_by(current_result_node) ==
            limit(IF ~current_result_node.ok THEN current_result_node
                  ELSE IF select.unionSelect # nullptr THEN Failed
                  ELSE IF select.order # nullptr
                  THEN _translate_order_by(select.order[1], current_result_node.node,
                                           current_result_node.nodes)
                  ELSE current_result_node)
        select_list(current_result_node) ==
            order_by(IF ~current_result_node.ok THEN current_result_node
                     ELSE IF select.selectList = <<>> THEN Failed
                     ELSE IF is_aggregate
                     THEN _translate_aggregate(select, current_result_node.node,
                                               current_result_node.nodes)
                     ELSE _translate_projection(select.selectList, current_result_node.node,
                                                current_result_node.nodes))
        where(current_result_node) ==
            select_list(IF ~current_result_node.ok \/ select.whereClause = nullptr
                        THEN current_result_node
                        ELSE _translate_where(select.whereClause[1],
                                              current_result_node.node,
                                              current_result_node.nodes))
    IN where(_translate_table_ref(select.fromTable, nodes, _validate))

\* what (*insert.values)[insert_column_index] past the end of the values, read
\* as an expression, yields if the program goes on
UndefinedExpression == create_column(UndefinedOrigin, <<>>)

\* the mutation of the check of the column counts that takes a source with
\* more columns than the target
column_mismatch_Fewer(source_column_count, target_column_count) ==
    source_column_count < target_column_count

\* "current_result_node->output_column_count() == target_table->column_count()"
column_mismatch(source_column_count, target_column_count) ==
    source_column_count # target_column_count

\* SQLTranslator::_translate_insert; selected is what _translate_select makes
\* of insert.select
_translate_insert(insert, selected) ==
    LET target_table == Tables[insert.tableName]
        \* Table::column_id_by_name, counted from 1; the name must be a column
        column_id_by_name(column_name) ==
            CHOOSE column_id \in 1..Len(target_table) : target_table[column_id] = column_name
        columns == insert.columns[1]
        \* the listed column the loop assigns to a column id last
        listed(column_id) ==
            {insert_column_index \in 1..Len(columns) :
                column_id_by_name(columns[insert_column_index]) = column_id}
        value(insert_column_index) ==
            IF insert_column_index > Len(insert.values[1])
            THEN [ok |-> TRUE, expression |-> UndefinedExpression]
            ELSE to_lqp_expression(<<>>, insert.values[1][insert_column_index], 0)
        insert_node(current_result_node) ==
            IF ~current_result_node.ok THEN current_result_node
            ELSE make_node(current_result_node.nodes, "Insert", current_result_node.node, 0,
                           [table_name |-> insert.tableName])
        \* "Assert(current_result_node->output_column_count() == ..."
        column_match(current_result_node) ==
            insert_node(IF /\ current_result_node.ok
                           /\ column_mismatch(
                                  output_column_count(current_result_node.nodes,
                                                      current_result_node.node),
                                  Len(target_table))
                        THEN Fail("Insert: column mismatch")
                        ELSE current_result_node)
        \* the projection list pre-filled with NULLs, then the loop over the columns
        projection(current_result_node, last) ==
            IF last = 0 THEN create_literal(NULL_VALUE, <<>>)
            ELSE IF insert.insertType = "kInsertValues" THEN value(last).expression
            ELSE create_column(
                     find_column_origin_by_output_column_id(
                         current_result_node.nodes, current_result_node.node, last - 1),
                     <<>>)
        projections(current_result_node) ==
            [column_id \in 1..Len(target_table) |->
                projection(current_result_node,
                           IF listed(column_id) = {} THEN 0
                           ELSE CHOOSE last \in listed(column_id) :
                                    \A other \in listed(column_id) : other <= last)]
        projection_node(current_result_node) ==
            insert_node(
                IF ~current_result_node.ok THEN current_result_node
                ELSE IF \E i \in 1..Len(columns) :
                           \/ \A column_id \in 1..Len(target_table) :
                                 target_table[column_id] # columns[i]
                           \/ insert.insertType = "kInsertValues" /\ ~value(i).ok
                THEN Failed
                ELSE make_node(current_result_node.nodes, "Projection",
                               current_result_node.node, 0,
                               [expressions |-> projections(current_result_node)]))
        insert_columns(current_result_node) ==
            IF insert.columns # nullptr THEN projection_node(current_result_node)
            ELSE column_match(IF current_result_node.ok /\ insert.insertType = "kInsertValues"
                              THEN _translate_projection(insert.values[1],
                                                         current_result_node.node,
                                                         current_result_node.nodes)
                              ELSE current_result_node)
    IN IF insert.tableName \notin DOMAIN Tables THEN Fail("Insert: Invalid table name")
       ELSE insert_columns(IF insert.insertType = "kInsertSelect" THEN selected
                           ELSE make_node(<<>>, "DummyTable", 0, 0, <<>>))

\* SQLTranslator::_translate_delete; StoredTableNode needs a stored table
_translate_delete(del, _validate) ==
    LET delete_node(current_result_node) ==
            IF ~current_result_node.ok THEN current_result_node
            ELSE make_node(current_result_node.nodes, "Delete", current_result_node.node, 0,
                           [table_name |-> del.tableName])
        where(current_result_node) ==
            delete_node(IF del.expr = nullptr THEN current_result_node
                        ELSE _translate_where(del.expr[1], current_result_node.node,
                                              current_result_node.nodes))
        validate_stored_table(stored_table_node) ==
            where(_validate_if_active(stored_table_node.nodes, stored_table_node.node,
                                      _validate))
    IN IF del.tableName \notin DOMAIN Tables THEN Failed
       ELSE validate_stored_table(make_node(<<>>, "StoredTable", 0, 0,
                                            [table_name |-> del.tableName]))

\* the mutation of the check of the source of an update that takes any source
is_stored_table_node_Never(nodes, node) == FALSE

\* "std::dynamic_pointer_cast<StoredTableNode>(current_values_node)"
is_stored_table_node(nodes, node) == nodes[node].type = "StoredTable"

\* SQLTranslator::_translate_update; table is what _translate_table_ref makes
\* of update.table, which hsql parses as the name of a table
_translate_update(update, table) ==
    LET update_node(current_values_node) ==
            LET nodes == current_values_node.nodes
                node == current_values_node.node
                column_origin(sql_expr) ==
                    get_column_origin_by_named_column_reference(
                        nodes, node, NamedColumnReference(sql_expr.column, ""))
                column_id(sql_expr) ==
                    find_output_column_id_by_column_origin(
                        nodes, node, Deref(column_origin(sql_expr).column_origin))
                expr(sql_expr) == to_lqp_expression(nodes, sql_expr.value, node)
                \* the update that is assigned to the column last
                updating(column_idx) ==
                    {i \in 1..Len(update.updates) :
                        column_id(update.updates[i]) = <<column_idx>>}
                update_expression(column_idx, last) ==
                    IF last = 0
                    THEN create_column(
                             find_column_origin_by_output_column_id(nodes, node, column_idx),
                             <<>>)
                    ELSE [expr(update.updates[last]).expression
                              EXCEPT !.alias = <<update.updates[last].column>>]
            IN IF ~current_values_node.ok THEN current_values_node
               ELSE IF is_stored_table_node(nodes, node)
               THEN Fail("Unconditional updates are currently not supported")
               ELSE IF \E i \in 1..Len(update.updates) :
                          \/ ~column_origin(update.updates[i]).ok
                          \/ column_id(update.updates[i]) = <<>>
                          \/ ~expr(update.updates[i]).ok
               THEN Failed
               ELSE make_node(
                        nodes, "Update", node, 0,
                        [table_name |-> update.table.name,
                         expressions |->
                             [i \in 1..output_column_count(nodes, node) |->
                                 update_expression(
                                     i - 1,
                                     IF updating(i - 1) = {} THEN 0
                                     ELSE CHOOSE last \in updating(i - 1) :
                                              \A other \in updating(i - 1) : other <= last)]])
        where(current_values_node) ==
            update_node(IF update.where = nullptr \/ ~current_values_node.ok
                        THEN current_values_node
                        ELSE _translate_where(update.where[1], current_values_node.node,
                                              current_values_node.nodes))
    IN where(table)

\* SQLTranslator::_translate_show
_translate_show(show_statement) ==
    CASE show_statement.showType = "kShowTables" -> make_node(<<>>, "ShowTables", 0, 0, <<>>)
      [] show_statement.showType = "kShowColumns" ->
            make_node(<<>>, "ShowColumns", 0, 0, [table_name |-> show_statement.name])
      [] OTHER -> Fail("hsql::ShowType is not supported.")

\* SQLTranslator::translate_statement
translate_statement(stmt, _validate) ==
    LET \* the SELECT of the statement and the table of an UPDATE, translated
        \* where _translate_select, _translate_insert and _translate_update do it
        translated(selected, table) ==
            CASE stmt.type = "kStmtSelect" -> selected
              [] stmt.type = "kStmtInsert" -> _translate_insert(stmt, selected)
              [] stmt.type = "kStmtDelete" -> _translate_delete(stmt, _validate)
              [] stmt.type = "kStmtUpdate" -> _translate_update(stmt, table)
              [] stmt.type = "kStmtShow" -> _translate_show(stmt)
              [] OTHER -> Fail("SQL statement type not supported")
    IN translated(_translate_select(IF stmt.type = "kStmtInsert" THEN stmt.select[1] ELSE stmt,
                                    <<>>, _validate),
                  _translate_table_name(stmt.table, <<>>, _validate))

NoStatement == SelectStatement(TableName(""), nullptr, <<>>, nullptr, nullptr, nullptr, nullptr)

\* hsql::GroupByDescription, hsql::OrderDescription, hsql::LimitDescription
GroupByDescription(columns, having) == [columns |-> columns, having |-> having]

OrderDescription(type, expr) == [type |-> type, expr |-> expr]

LimitDescription(limit) == [limit |-> limit]

\* the outcome of translate_statement: the plan returned, or the error thrown
Translated(translated) ==
    [translated |-> TRUE, ok |-> translated.ok, nodes |-> translated.nodes,
     node |-> translated.node, error |-> translated.error]

NotTranslated == [translated |-> FALSE, ok |-> FALSE, nodes |-> <<>>, node |-> 0,
                  error |-> ""]

\* the process ends on a read that is undefined behaviour
Crashed == [translated |-> TRUE, ok |-> FALSE, nodes |-> <<>>, node |-> 0,
            error |-> "crash"]

\* the plan holds what the read of an empty optional or of a column the node
\* does not output yielded
reads_undefined(translated) ==
    /\ translated.ok
    /\ \E n \in 1..Len(translated.nodes) :
          LET node == translated.nodes[n]
          IN \/ /\ node.type = "Join"
                /\ \E i \in 1..Len(node.data.join_column_origins) :
                      node.data.join_column_origins[i] = UndefinedOrigin
             \/ /\ node.type = "Projection"
                /\ \E i \in 1..Len(node.data.expressions) :
                      node.data.expressions[i].column_origin = <<UndefinedOrigin>>

\* ------------------------------------------------------------------ specs

SetUnionIdle ==
    /\ input_left = NoTable /\ input_right = NoTable
    /\ set_union = NotExecuted /\ set_union_swapped = NotExecuted

DictionaryIdle == value_column = NoValueColumn /\ dictionary_column = NotEncoded

EncodingIdle == dictionary_size = 0 /\ zs_type = "none"

SimdBp128Idle ==
    /\ bit_size = 0 /\ sequence = <<>>
    /\ encoded_sequence = NoVector /\ decoded_sequence = NotDecoded

RunLengthIdle == run_length_column = NoRunLengthColumn /\ access = NotAccessed

\* the SIMD-BP128 vector and the RunLengthColumn at rest
StorageIdle == SimdBp128Idle /\ RunLengthIdle

TranslatorIdle == statement = NoStatement /\ validate = FALSE /\ lqp = NotTranslated

\* the merge loop of SetUnion not entered
MergeIdle == merge = NotMerging

\* no call on an expression yet. A call is known by its name op; with it are
\* kept the two expressions made (expression, other), the copy deep_copy
\* returned, the expression as it was when copied (before), and the value
\* result of the last comparison
NoCall ==
    [op |-> "none", expression |-> 0, other |-> 0, copy |-> 0, result |-> FALSE,
     before |-> <<>>]

\* no expression made
ExpressionIdle == heap = <<>> /\ expression_call = NoCall

\* the SetUnion operator, the DictionaryEncoder and the encoding choice at rest
OperatorsIdle == SetUnionIdle /\ MergeIdle /\ DictionaryIdle /\ EncodingIdle

SetUnionInit ==
    /\ \E left_schema \in LeftSchemas, right_schema \in RightSchemas :
          /\ IsInputTable(input_left, left_schema, InputRows(left_schema, right_schema))
          /\ IsInputTable(input_right, right_schema, InputRows(left_schema, right_schema))
    /\ set_union = NotExecuted
    /\ set_union_swapped = NotExecuted

\* SetUnion(left, right)->execute()
Execute ==
    /\ ~set_union.executed
    /\ set_union' = _on_execute(input_left, input_right)
    /\ UNCHANGED <<input_left, input_right, set_union_swapped, dictionaryVars, encodingVars,
                   simdBp128Vars, runLengthVars, translatorVars, mergeVars, expressionVars>>

\* SetUnion(right, left)->execute(), a second operator over the same two tables
ExecuteSwapped ==
    /\ set_union.executed
    /\ ~set_union_swapped.executed
    /\ set_union_swapped' = _on_execute(input_right, input_left)
    /\ UNCHANGED <<input_left, input_right, set_union, dictionaryVars, encodingVars,
                   simdBp128Vars, runLengthVars, translatorVars, mergeVars, expressionVars>>

Init ==
    /\ SetUnionInit /\ MergeIdle
    /\ DictionaryIdle /\ EncodingIdle /\ StorageIdle /\ TranslatorIdle /\ ExpressionIdle

Next == Execute \/ ExecuteSwapped

\* the SetUnion operator
Spec == Init /\ [][Next]_vars

\* table is a References table of the column layout schema that holds rows, of
\* any segmentation, unchunked or in chunks of MaxChunkSize rows
IsMergeInput(table, schema) ==
    \E chunk_size \in {0, MaxChunkSize}, layout \in Layouts(Len(schema)), n \in 1..MaxRows :
        \E rows \in [1..n -> SegmentRows(layout)] :
            table = ReferencesTable(schema, chunk_size, layout, rows)

\* the merge loop entered with the values x computed ahead of it
MergeEntered(x) == [NotMerging EXCEPT !.merging = TRUE, !.x = x, !.m = MergeStart(x)]

\* two inputs on which _on_execute enters the merge loop (References tables of
\* one layout that hold rows), _analyze_input done and the loop not yet run
MergeInit ==
    /\ \E schema \in LeftSchemas \ {<<>>} :
          /\ IsMergeInput(input_left, schema)
          /\ IsMergeInput(input_right, schema)
    /\ _analyze_input(input_left, input_right).result = "merge"
    /\ set_union = NotExecuted
    /\ set_union_swapped = NotExecuted
    /\ merge = MergeEntered(MergeContext(input_left, input_right,
                     _analyze_input(input_left, input_right).column_segment_begins))

\* one iteration of the for loop of _on_execute
MergeStep ==
    /\ merge.merging
    /\ MergeContinues(merge.m, merge.x)
    /\ merge' = [merge EXCEPT !.iterations = @ + 1,
                              !.take = MergeTake(merge.m, merge.x),
                              !.from_left_idx = merge.m.left_idx,
                              !.from_right_idx = merge.m.right_idx,
                              !.m = MergeIteration(merge.m, merge.x)]
    /\ UNCHANGED <<setUnionVars, dictionaryVars, encodingVars, simdBp128Vars,
                   runLengthVars, translatorVars, expressionVars>>

\* the loop is left: the last chunk is emitted and _on_execute returns out_table
MergeReturn ==
    /\ merge.merging
    /\ ~MergeContinues(merge.m, merge.x)
    /\ merge' = [merge EXCEPT !.merging = FALSE]
    /\ set_union' =
          [executed |-> TRUE,
           column_segment_begins |-> merge.x.column_segment_begins,
           status |-> "ok",
           from |-> "new",
           output |-> MergeResult(merge.m, merge.x, input_left)]
    /\ UNCHANGED <<input_left, input_right, set_union_swapped, dictionaryVars, encodingVars,
                   simdBp128Vars, runLengthVars, translatorVars, expressionVars>>

InitMerge ==
    /\ MergeInit
    /\ DictionaryIdle /\ EncodingIdle /\ StorageIdle /\ TranslatorIdle /\ ExpressionIdle

NextMerge == MergeStep \/ MergeReturn

\* the merge loop of SetUnion, iteration by iteration; _on_execute runs on
\* one thread, which takes its next step whenever there is one
SpecMerge == InitMerge /\ [][NextMerge]_vars /\ WF_vars(NextMerge)

\* a value column of up to MaxColumnLength rows; a nullable column holds a NULL
\* flag per row, and any value in the rows that are NULL
DictionaryInit ==
    /\ \E n \in 0..MaxColumnLength, nullable \in BOOLEAN :
          \E values \in [1..n -> 1..MaxValue],
             null_values \in (IF nullable THEN [1..n -> BOOLEAN] ELSE {<<>>}) :
              value_column = [values |-> values, nullable |-> nullable,
                              null_values |-> null_values]
    /\ dictionary_column = NotEncoded

\* DictionaryEncoder::encode(value_column)
Encode ==
    /\ ~dictionary_column.encoded
    /\ dictionary_column' = _encode(value_column)
    /\ UNCHANGED <<value_column, setUnionVars, encodingVars,
                   simdBp128Vars, runLengthVars, translatorVars, mergeVars, expressionVars>>

\* the DictionaryEncoder on value columns
InitDictionary ==
    /\ DictionaryInit
    /\ SetUnionIdle /\ MergeIdle /\ EncodingIdle /\ StorageIdle /\ TranslatorIdle /\ ExpressionIdle

NextDictionary == Encode

SpecDictionary == InitDictionary /\ [][NextDictionary]_vars

EncodingInit ==
    /\ dictionary_size \in 0..MaxDictionarySize
    /\ zs_type = "none"

\* "const auto zs_type = get_fixed_size_byte_aligned_encoding(dictionary.size() + 1u)"
ChooseEncoding ==
    /\ zs_type = "none"
    /\ zs_type' = get_fixed_size_byte_aligned_encoding(dictionary_size + 1)
    /\ UNCHANGED <<dictionary_size, setUnionVars, dictionaryVars,
                   simdBp128Vars, runLengthVars, translatorVars, mergeVars, expressionVars>>

\* the choice of the attribute vector's width, for dictionaries of any size
InitEncoding ==
    /\ EncodingInit
    /\ SetUnionIdle /\ MergeIdle /\ DictionaryIdle /\ StorageIdle /\ TranslatorIdle /\ ExpressionIdle

NextEncoding == ChooseEncoding

SpecEncoding == InitEncoding /\ [][NextEncoding]_vars

\* a sequence of values of _bit_size bits, of one of the lengths SequenceCounts
SimdBp128Init ==
    /\ \E _bit_size \in BitSizes, count \in SequenceCounts, ascending \in BOOLEAN :
          /\ bit_size = _bit_size
          /\ sequence = IF ascending THEN generate_sequence(count, _bit_size)
                        ELSE max_sequence(count, _bit_size)
    /\ encoded_sequence = NoVector
    /\ decoded_sequence = NotDecoded

\* SimdBp128Test::encode: encodes the sequence and reads size()
EncodeSequence ==
    /\ ~encoded_sequence.encoded
    /\ encoded_sequence' =
          LET encoded_vector == SimdBp128Encoder_encode(sequence)
          IN [encoded |-> TRUE, vector |-> encoded_vector, size |-> _on_size(encoded_vector)]
    /\ UNCHANGED <<bit_size, sequence, decoded_sequence, setUnionVars, dictionaryVars,
                   encodingVars, runLengthVars, translatorVars, mergeVars, expressionVars>>

\* TEST_P(SimdBp128Test, DecodeSequenceUsingIterators)
DecodeSequenceUsingIterators ==
    /\ encoded_sequence.encoded
    /\ decoded_sequence = NotDecoded
    /\ decoded_sequence' =
          Decoded("iterators", traverse(_on_cbegin(encoded_sequence.vector),
                                        _on_cend(encoded_sequence.vector)))
    /\ UNCHANGED <<bit_size, sequence, encoded_sequence, setUnionVars, dictionaryVars,
                   encodingVars, runLengthVars, translatorVars, mergeVars, expressionVars>>

\* TEST_P(SimdBp128Test, DecodeSequenceUsingDecoder): get(index) for every
\* index of the sequence
DecodeSequenceUsingDecoder ==
    /\ encoded_sequence.encoded
    /\ decoded_sequence = NotDecoded
    /\ decoded_sequence' =
          Decoded("decoder", [index \in 1..Len(sequence) |->
                                 get(encoded_sequence.vector, index - 1)])
    /\ UNCHANGED <<bit_size, sequence, encoded_sequence, setUnionVars, dictionaryVars,
                   encodingVars, runLengthVars, translatorVars, mergeVars, expressionVars>>

\* TEST_P(SimdBp128Test, DecodeSequenceUsingDecodeMethod)
DecodeSequenceUsingDecodeMethod ==
    /\ encoded_sequence.encoded
    /\ decoded_sequence = NotDecoded
    /\ decoded_sequence' = Decoded("decode", decode(encoded_sequence.vector))
    /\ UNCHANGED <<bit_size, sequence, encoded_sequence, setUnionVars, dictionaryVars,
                   encodingVars, runLengthVars, translatorVars, mergeVars, expressionVars>>

\* a column of 1..MaxEndPosition + 1 runs that end at strictly increasing
\* positions, one value per run, and any value as the NULL sentinel
RunLengthInit ==
    /\ \E ends \in (SUBSET (0..MaxEndPosition)) \ {{}} :
          \E values \in [1..Cardinality(ends) -> 0..MaxRunValue],
             null_value \in 0..MaxRunValue :
              run_length_column = RunLengthColumn(values, SortUniqueSet(ends), null_value)
    /\ access = NotAccessed

\* column[chunk_offset] for a row of the column
Access ==
    /\ ~access.accessed
    /\ \E chunk_offset \in 0..(size(run_length_column) - 1),
          past_the_end \in 0..MaxRunValue :
          access' = [accessed |-> TRUE, chunk_offset |-> chunk_offset,
                     result |-> operator_subscript(run_length_column, chunk_offset,
                                                   past_the_end)]
    /\ UNCHANGED <<run_length_column, setUnionVars, dictionaryVars, encodingVars,
                   simdBp128Vars, translatorVars, mergeVars, expressionVars>>

\* the RunLengthColumn and its operator[]
InitRunLength ==
    RunLengthInit /\ SimdBp128Idle /\ OperatorsIdle /\ TranslatorIdle /\ ExpressionIdle

NextRunLength == Access

SpecRunLength == InitRunLength /\ [][NextRunLength]_vars

\* the SIMD-BP128 vector under its test
InitSimdBp128 ==
    SimdBp128Init /\ RunLengthIdle /\ OperatorsIdle /\ TranslatorIdle /\ ExpressionIdle

NextSimdBp128 ==
    \/ EncodeSequence
    \/ DecodeSequenceUsingIterators
    \/ DecodeSequenceUsingDecoder
    \/ DecodeSequenceUsingDecodeMethod

SpecSimdBp128 == InitSimdBp128 /\ [][NextSimdBp128]_vars

\* ------------------------------------------- SQLTranslator: statements

\* SELECT selectList FROM fromTable and the clauses given
Select(selectList, fromTable, whereClause, groupBy, order, limit) ==
    SelectStatement(fromTable, whereClause, selectList, groupBy, order, limit, nullptr)

Column(name) == ColumnRef("", name)

Comparisons == {"kOpEquals", "kOpNotEquals", "kOpLess", "kOpLessEq", "kOpGreater",
                "kOpGreaterEq", "kOpLike", "kOpNotLike"}

Operands == {Column("a"), Column("b"), LiteralInt(5), Placeholder}

\* left op right for every comparison and every pair of operands
ComparisonPredicates ==
    {Operator(op, left, right) : op \in Comparisons, left \in Operands, right \in Operands}

\* expr BETWEEN ... with one, two and three entries in exprList
BetweenPredicates ==
    {Between(expr, exprList) :
        expr \in {Column("a"), LiteralInt(5)},
        exprList \in {<<value, value2>> : value \in Operands, value2 \in Operands}
                     \cup {<<LiteralInt(1)>>, <<LiteralInt(1), LiteralInt(2), LiteralInt(3)>>}}

\* AND and OR over three predicates, nested both ways
LogicalPredicates ==
    LET A == Operator("kOpEquals", Column("a"), LiteralInt(1))
        B == Operator("kOpGreater", Column("b"), LiteralInt(2))
        C == Operator("kOpLess", LiteralInt(5), Column("a"))
        Logical == {"kOpAnd", "kOpOr"}
    IN {Operator(op, A, B) : op \in Logical}
       \cup {Operator(op, Operator(inner, A, B), C) : op \in Logical, inner \in Logical}
       \cup {Operator(op, A, Operator(inner, B, C)) : op \in Logical, inner \in Logical}
       \cup {Operator("kOpOr", A, Operator("kOpEquals", Column("x"), LiteralInt(1)))}

\* SELECT * FROM T1 WHERE predicate
WhereStatements ==
    {Select(<<Star>>, TableName("T1"), <<predicate>>, nullptr, nullptr, nullptr) :
        predicate \in ComparisonPredicates \cup BetweenPredicates \cup LogicalPredicates}

Sum(name, alias) == FunctionRef("SUM", Column(name), alias)

Avg(name) == FunctionRef("AVG", Column(name), "")

GreaterThanZero(expr) == Operator("kOpGreater", expr, LiteralInt(0))

\* the HAVING clauses: over an aggregate of the select list, over others, over
\* a group-by column, with the aggregate on the right, and combinations
HavingClauses ==
    {GreaterThanZero(Sum("b", "")), GreaterThanZero(Avg("b")), GreaterThanZero(Avg("a")),
     GreaterThanZero(Column("a")), GreaterThanZero(Column("b")),
     Operator("kOpLess", LiteralInt(0), Avg("b")),
     Operator("kOpLess", LiteralInt(0), LiteralInt(1)),
     Operator("kOpGreater", Sum("b", ""), Avg("b")),
     Between(Avg("b"), <<LiteralInt(1), LiteralInt(2)>>),
     Operator("kOpAnd", GreaterThanZero(Avg("b")), GreaterThanZero(Sum("b", ""))),
     Operator("kOpAnd", GreaterThanZero(Avg("b")),
              Operator("kOpLess", Avg("b"), LiteralInt(9))),
     Operator("kOpOr", GreaterThanZero(Avg("b")), GreaterThanZero(Avg("a")))}

SelectLists ==
    {<<Star>>, <<Column("a")>>, <<Column("b")>>, <<Column("b"), Column("a")>>,
     <<Sum("b", "")>>, <<Column("a"), Sum("b", "")>>, <<Sum("b", ""), Column("a")>>,
     <<Column("b"), Sum("a", "")>>, <<Star, Sum("b", "")>>, <<Sum("b", "s"), Avg("b")>>,
     <<Sum("b", ""), LiteralInt(1)>>,
     <<[Column("a") EXCEPT !.alias = "x"], Sum("b", "")>>}

GroupBys ==
    {nullptr} \cup
    {<<GroupByDescription(columns, having)>> :
        columns \in {<<Column("a")>>, <<Column("b")>>, <<Column("a"), Column("b")>>,
                     <<Column("b"), Column("a")>>, <<Column("x")>>},
        having \in {nullptr} \cup {<<clause>> : clause \in HavingClauses}}

\* SELECT selectList FROM T1 [GROUP BY columns [HAVING clause]]
AggregateStatements ==
    {Select(selectList, TableName("T1"), nullptr, groupBy, nullptr, nullptr) :
        selectList \in SelectLists, groupBy \in GroupBys}

\* the statements with each clause present and absent, the ORDER BY list also
\* empty, and one with a UNION
ClauseStatements ==
    {SelectStatement(TableName("T1"), whereClause, selection[1], selection[2], order, limit,
                     unionSelect) :
        whereClause \in {nullptr, <<Operator("kOpEquals", Column("a"), LiteralInt(1))>>,
                         <<Operator("kOpOr",
                                    Operator("kOpEquals", Column("a"), LiteralInt(1)),
                                    Operator("kOpGreater", Column("b"), LiteralInt(2)))>>},
        selection \in {<<<<Star>>, nullptr>>,
                       <<<<Column("a"), Column("b")>>, nullptr>>,
                       <<<<Sum("b", "")>>, nullptr>>,
                       <<<<Column("a"), Sum("b", "")>>,
                         <<GroupByDescription(<<Column("a")>>, nullptr)>>>>,
                       <<<<Column("a"), Sum("b", "")>>,
                         <<GroupByDescription(<<Column("a")>>,
                                              <<GreaterThanZero(Avg("b"))>>)>>>>},
        order \in {nullptr, <<<<>>>>, <<<<OrderDescription("kOrderAsc", Column("a"))>>>>,
                   <<<<OrderDescription("kOrderDesc", Column("a")),
                       OrderDescription("kOrderAsc", Column("x"))>>>>},
        limit \in {nullptr, <<LimitDescription(1)>>},
        unionSelect \in {nullptr,
                          <<Select(<<Star>>, TableName("T2"), nullptr, nullptr, nullptr,
                                   nullptr)>>}}

JoinTypes == {"kJoinInner", "kJoinLeft", "kJoinOuter", "kJoinNatural"}

JoinOperands ==
    {Column("a"), Column("b"), Column("c"), Column("x"), ColumnRef("T1", "b"),
     ColumnRef("T2", "b"), LiteralInt(5)}

\* the join conditions: a comparison of any two operands, a LIKE, a
\* conjunction, a column alone
JoinConditions ==
    {Operator(op, left, right) :
        op \in {"kOpEquals", "kOpLess"}, left \in JoinOperands, right \in JoinOperands}
    \cup {Operator("kOpLike", Column("a"), Column("c")),
          Operator("kOpAnd", Operator("kOpEquals", Column("a"), Column("c")),
                   Operator("kOpEquals", Column("a"), Column("c"))),
          Column("a")}

\* SELECT * FROM left JOIN right ON condition, NATURAL JOIN with no condition
JoinStatements ==
    {Select(<<Star>>, TableJoin(type, TableName(left), TableName(right), condition),
            nullptr, nullptr, nullptr, nullptr) :
        type \in JoinTypes \ {"kJoinNatural"}, left \in {"T1"}, right \in {"T2", "T3"},
        condition \in {<<join_condition>> : join_condition \in JoinConditions}}
    \cup
    {Select(<<Star>>, TableJoin("kJoinNatural", left, right, nullptr),
            nullptr, nullptr, nullptr, nullptr) :
        left \in {TableName("T1"), TableName("T2"), TableName("T3"),
                  TableJoin("kJoinNatural", TableName("T1"), TableName("T2"), nullptr)},
        right \in {TableName("T1"), TableName("T2"), TableName("T3")}}

\* FROM a cross product, a subselect with and without alias, an aliased
\* table, a table that is not stored
TableRefStatements ==
    {Select(selectList, fromTable, nullptr, nullptr, nullptr, nullptr) :
        selectList \in {<<Star>>, <<[Star EXCEPT !.table = "t"]>>, <<ColumnRef("t", "a")>>,
                        <<ColumnRef("T1", "a")>>},
        fromTable \in
            {TableRef("kTableCrossProduct", "", "", nullptr,
                      <<<<TableName("T1"), TableName("T2"), TableName("T3")>>>>, nullptr),
             TableRef("kTableSelect", "", "",
                      <<Select(<<Column("a")>>, TableName("T1"), nullptr, nullptr, nullptr,
                               nullptr)>>, nullptr, nullptr),
             TableRef("kTableSelect", "", "t",
                      <<Select(<<Column("a")>>, TableName("T1"), nullptr, nullptr, nullptr,
                               nullptr)>>, nullptr, nullptr),
             TableName("T1"), [TableName("T1") EXCEPT !.alias = "t"],
             TableName("T4")}}

Statements ==
    WhereStatements \cup AggregateStatements \cup ClauseStatements \cup JoinStatements
    \cup TableRefStatements

\* a parsed statement and a translator, validating or not
TranslatorInit ==
    /\ statement \in Statements
    /\ validate \in BOOLEAN
    /\ lqp = NotTranslated

\* SQLTranslator{validate}.translate_statement(statement); a translation that
\* read an empty optional, or past the columns of a node, went on with what it
\* read or ended the process
Translate ==
    /\ ~lqp.translated
    /\ LET translated == translate_statement(statement, validate)
       IN lqp' \in {Translated(translated)}
                   \cup (IF reads_undefined(translated) THEN {Crashed} ELSE {})
    /\ UNCHANGED <<statement, validate, setUnionVars, dictionaryVars, encodingVars,
                   simdBp128Vars, runLengthVars, mergeVars, expressionVars>>

InitTranslator == TranslatorInit /\ StorageIdle /\ OperatorsIdle /\ ExpressionIdle

NextTranslator == Translate

SpecTranslator == InitTranslator /\ [][NextTranslator]_vars

\* INSERT INTO table [(columns)] VALUES (...) and INSERT INTO table [(columns)]
\* SELECT ...; T4 is no stored table, x no column
ColumnLists ==
    {nullptr}
    \cup {<<<<name>>>> : name \in {"a", "b", "x"}}
    \cup {<<<<first, second>>>> : first \in {"a", "b", "x"}, second \in {"a", "b", "x"}}

ValueLists ==
    {<<LiteralInt(1)>>, <<LiteralInt(1), LiteralInt(2)>>, <<Placeholder, LiteralInt(2)>>,
     <<LiteralInt(1), LiteralInt(2), LiteralInt(3)>>}

InsertSelects ==
    {Select(selectList, TableName(name), nullptr, nullptr, nullptr, nullptr) :
        selectList \in {<<Star>>, <<Column("b")>>, <<Column("b"), Column("a")>>},
        name \in {"T1", "T2"}}

InsertStatements ==
    {InsertStatement("kInsertValues", tableName, columns, <<values>>, nullptr) :
        tableName \in {"T1", "T3", "T4"}, columns \in ColumnLists, values \in ValueLists}
    \cup {InsertStatement("kInsertSelect", tableName, columns, nullptr, <<select>>) :
            tableName \in {"T1", "T3", "T4"}, columns \in ColumnLists,
            select \in InsertSelects}

\* the WHERE clauses of DELETE and UPDATE: none, one predicate, OR, AND, and a
\* predicate on a column the table does not have
DmlPredicates ==
    LET A == Operator("kOpEquals", Column("a"), LiteralInt(1))
        B == Operator("kOpGreater", Column("b"), LiteralInt(2))
    IN {nullptr, <<A>>, <<Operator("kOpOr", A, B)>>, <<Operator("kOpAnd", A, B)>>,
        <<Operator("kOpAnd", Operator("kOpOr", A, B), A)>>,
        <<Operator("kOpEquals", Column("x"), LiteralInt(1))>>}

\* DELETE FROM table [WHERE predicate]
DeleteStatements ==
    {DeleteStatement(tableName, expr) : tableName \in {"T1", "T4"}, expr \in DmlPredicates}

\* UPDATE table SET column = value [, column = value] [WHERE predicate]
UpdateClauses ==
    {UpdateClause(column, value) :
        column \in {"a", "b", "x"}, value \in {LiteralInt(5), Column("a"), Placeholder}}

UpdateStatements ==
    {UpdateStatement(TableName(name), updates, where) :
        name \in {"T1", "T4"},
        updates \in {<<first>> : first \in UpdateClauses}
                    \cup {<<first, second>> : first \in UpdateClauses,
                                              second \in UpdateClauses},
        where \in DmlPredicates}

\* SHOW TABLES, SHOW COLUMNS table, and a statement of another kind
ShowStatements ==
    {ShowStatement("kShowTables", ""), ShowStatement("kShowColumns", "T1"),
     ShowStatement("kShowOther", "")}

OtherStatements == {[type |-> "kStmtCreate"]}

DmlStatements ==
    InsertStatements \cup DeleteStatements \cup UpdateStatements \cup ShowStatements
    \cup OtherStatements

\* a parsed INSERT, DELETE, UPDATE or SHOW statement and a translator
DmlInit ==
    /\ statement \in DmlStatements
    /\ validate \in BOOLEAN
    /\ lqp = NotTranslated

InitDml == DmlInit /\ StorageIdle /\ OperatorsIdle /\ ExpressionIdle

NextDml == Translate

SpecDml == InitDml /\ [][NextDml]_vars

\* --------------------------------------------- BaseExpression: the calls

\* literals, stars and placeholders that differ in one field each
ExpressionLeaves ==
    { create_literal(AllTypeVariant(1), <<>>), create_literal(AllTypeVariant(2), <<>>),
      create_literal(AllTypeVariant(1), <<"x">>),
      create_select_star(<<"T1">>), create_select_star(<<"T2">>),
      create_value_placeholder(0), create_value_placeholder(1) }

\* the operands of the operators and functions below
ExpressionOperands ==
    { create_literal(AllTypeVariant(1), <<>>), create_literal(AllTypeVariant(2), <<>>),
      create_value_placeholder(0) }

\* aggregate functions of one or two arguments
ExpressionFunctions ==
    { create_aggregate_function(aggregate_function, arguments, alias) :
        aggregate_function \in {"SUM", "MIN"},
        arguments \in {<<create_literal(AllTypeVariant(1), <<>>)>>,
                       <<create_literal(AllTypeVariant(2), <<>>)>>,
                       <<create_literal(AllTypeVariant(1), <<>>),
                         create_literal(AllTypeVariant(2), <<>>)>>,
                       <<create_literal(AllTypeVariant(2), <<>>),
                         create_literal(AllTypeVariant(1), <<>>)>>},
        alias \in {<<>>, <<"x">>} }

\* unary and binary operators over operands, and a binary operator over an
\* aggregate function
ExpressionOperators ==
    { create_binary_operator(type, <<left>>, <<right>>, <<>>) :
        type \in {"Addition", "Equals"}, left \in ExpressionOperands,
        right \in ExpressionOperands }
    \cup { create_unary_operator("Not", <<input>>, <<>>) : input \in ExpressionOperands }
    \cup { create_binary_operator("Addition",
               <<create_aggregate_function("SUM", <<argument>>, <<>>)>>, <<right>>, <<"x">>) :
             argument \in ExpressionOperands, right \in ExpressionOperands }

ExpressionTrees == ExpressionLeaves \cup ExpressionFunctions \cup ExpressionOperators

\* the call that made two expressions
Created(expression, other) ==
    [NoCall EXCEPT !.op = "create", !.expression = expression, !.other = other]

\* two expressions built by the create_ functions
ExpressionInit ==
    \E tree \in ExpressionTrees, other_tree \in ExpressionTrees :
        LET made(first) ==
                LET second == make_shared(first.objects, other_tree)
                IN  /\ heap = second.objects
                    /\ expression_call = Created(first.expression, second.expression)
        IN  made(make_shared(<<>>, tree))

\* the objects an expression leads to, itself included
RECURSIVE Reachable(_, _)
Reachable(objects, expression) ==
    {expression}
    \cup UNION {Reachable(objects, objects[expression].left_child[i]) :
                   i \in 1..Len(objects[expression].left_child)}
    \cup UNION {Reachable(objects, objects[expression].right_child[i]) :
                   i \in 1..Len(objects[expression].right_child)}
    \cup UNION {Reachable(objects, objects[expression].aggregate_function_arguments[i]) :
                   i \in 1..Len(objects[expression].aggregate_function_arguments)}

\* *expression == *other
Compare ==
    /\ expression_call.op = "create"
    /\ expression_call' =
          [expression_call EXCEPT
              !.op = "operator==",
              !.result = operator_equals(dereference(heap, expression_call.expression),
                                         dereference(heap, expression_call.other))]
    /\ UNCHANGED <<heap, setUnionVars, mergeVars, dictionaryVars, encodingVars,
                   simdBp128Vars, runLengthVars, translatorVars>>

\* expression->deep_copy(), and the copy compared with the expression
DeepCopy ==
    /\ expression_call.op = "create"
    /\ LET copied(copy) ==
               /\ heap' = copy.objects
               /\ expression_call' =
                     [op |-> "deep_copy",
                      expression |-> expression_call.expression,
                      other |-> expression_call.other,
                      copy |-> copy.expression,
                      result |-> operator_equals(
                                     dereference(copy.objects, copy.expression),
                                     dereference(copy.objects, expression_call.expression)),
                      before |-> <<dereference(heap, expression_call.expression)>>]
       IN  copied(deep_copy(heap, expression_call.expression))
    /\ UNCHANGED <<setUnionVars, mergeVars, dictionaryVars, encodingVars,
                   simdBp128Vars, runLengthVars, translatorVars>>

\* set_alias on the copy or on an expression the copy leads to
SetAlias ==
    /\ expression_call.op = "deep_copy"
    /\ \E target \in Reachable(heap, expression_call.copy), alias \in {"x", "y"} :
          heap' = BaseExpression_set_alias(heap, target, alias)
    /\ expression_call' = [expression_call EXCEPT !.op = "set_alias"]
    /\ UNCHANGED <<setUnionVars, mergeVars, dictionaryVars, encodingVars,
                   simdBp128Vars, runLengthVars, translatorVars>>

\* set_left_child on the copy or on an expression the copy leads to: no
\* child, or the second expression made
SetLeftChild ==
    /\ expression_call.op = "deep_copy"
    /\ \E target \in Reachable(heap, expression_call.copy),
          left \in {nullptr, <<expression_call.other>>} :
              heap' = set_left_child(heap, target, left)
    /\ expression_call' = [expression_call EXCEPT !.op = "set_left_child"]
    /\ UNCHANGED <<setUnionVars, mergeVars, dictionaryVars, encodingVars,
                   simdBp128Vars, runLengthVars, translatorVars>>

InitExpression == ExpressionInit /\ StorageIdle /\ OperatorsIdle /\ TranslatorIdle

NextExpression == Compare \/ DeepCopy \/ SetAlias \/ SetLeftChild

\* expressions made, compared, copied and changed
SpecExpression == InitExpression /\ [][NextExpression]_vars

\* ------------------------------------------------ SetUnion: properties

Range(seq) == {seq[i] : i \in 1..Len(seq)}

\* how often x occurs in seq
Count(seq, x) == Cardinality({i \in 1..Len(seq) : seq[i] = x})

SameBag(s, t) == \A x \in Range(s) \cup Range(t) : Count(s, x) = Count(t, x)

\* the rows of a References table, chunk after chunk, each row the tuple of
\* the RowIDs its columns hold
TableRows(table) ==
    Concat([c \in 1..Len(table.chunks) |->
        [i \in 1..table.chunks[c].size |->
            [column \in 1..column_count(table) |-> table.chunks[c].columns[column].rows[i]]]])

\* which PosList each column of the first chunk holds
Segmentation(table) ==
    [column \in 1..column_count(table) |-> table.chunks[1].columns[column].pos_list]

BothReferences == input_left.type = "References" /\ input_right.type = "References"

SameSchema == input_left.column_definitions = input_right.column_definitions

\* lexicographic order on rows, RowIDs ordered by chunk id, then chunk offset
RowLeq(s, t) ==
    \/ s = t
    \/ \E k \in 1..Len(s) :
          /\ \A j \in 1..(k - 1) : s[j] = t[j]
          /\ s[k][1] < t[k][1] \/ (s[k][1] = t[k][1] /\ s[k][2] < t[k][2])

\* C1: for two References tables of the same schema and segmentation,
\* SetUnion(left, right) and SetUnion(right, left) both succeed and hold the
\* same multiset of rows.
C1_Commutative ==
    (/\ set_union_swapped.executed
     /\ BothReferences /\ SameSchema
     /\ Segmentation(input_left) = Segmentation(input_right))
    => /\ set_union.status = "ok"
       /\ set_union_swapped.status = "ok"
       /\ SameBag(TableRows(set_union.output), TableRows(set_union_swapped.output))

\* C1 witness: both orders were merged, over two segments, and each input
\* holds a row the other lacks
C1_Witness ==
    /\ set_union_swapped.executed
    /\ set_union.from = "new" /\ set_union_swapped.from = "new"
    /\ Segmentation(input_left) = <<1, 2>> /\ Segmentation(input_right) = <<1, 2>>
    /\ Range(TableRows(input_left)) \ Range(TableRows(input_right)) # {}
    /\ Range(TableRows(input_right)) \ Range(TableRows(input_left)) # {}

\* C2: for a References table a, SetUnion(a, a) succeeds and holds the same
\* multiset of rows as a.
C2_Idempotent ==
    (set_union.executed /\ BothReferences /\ input_left = input_right)
    => /\ set_union.status = "ok"
       /\ SameBag(TableRows(set_union.output), TableRows(input_left))

\* C2 witness: a table of two different rows in two chunks was merged with itself
C2_Witness ==
    /\ set_union.from = "new"
    /\ input_left = input_right
    /\ Len(input_left.chunks) = 2
    /\ Cardinality(Range(TableRows(input_left))) = 2

\* C3: when both inputs hold rows, the rows of the result, chunk after chunk,
\* are in non-decreasing lexicographic order and the set of rows is the union
\* of the inputs' sets of rows.
C3_SortedUnion ==
    (/\ set_union.status = "ok"
     /\ row_count(input_left) > 0 /\ row_count(input_right) > 0)
    => LET rows == TableRows(set_union.output)
       IN  /\ \A i \in 1..(Len(rows) - 1) : RowLeq(rows[i], rows[i + 1])
           /\ Range(rows) = Range(TableRows(input_left)) \cup Range(TableRows(input_right))

\* C3 witness: position lists [(0,0),(0,2)] and [(0,2),(0,5)] give [(0,0),(0,2),(0,5)]
C3_Witness ==
    /\ set_union.status = "ok" /\ BothReferences
    /\ TableRows(input_left) = << << <<0, 0>> >>, << <<0, 2>> >> >>
    /\ TableRows(input_right) = << << <<0, 2>> >>, << <<0, 5>> >> >>
    /\ Len(set_union.output.chunks) = 1
    /\ set_union.output.chunks[1].columns[1].rows = << <<0, 0>>, <<0, 2>>, <<0, 5>> >>

\* C4 as claimed: a row that occurs in both inputs occurs exactly once in the result.
C4_SharedRowExactlyOnce ==
    (set_union.status = "ok" /\ BothReferences)
    => \A row \in Range(TableRows(input_left)) \cap Range(TableRows(input_right)) :
           Count(TableRows(set_union.output), row) = 1

\* C4 as amended: a row that occurs m times in the left and n times in the
\* right input, m and n at least 1, occurs max(m, n) times in the result; so
\* exactly once when neither input holds it twice.
C4_SharedRowMaxCount ==
    (set_union.status = "ok" /\ BothReferences)
    => \A row \in Range(TableRows(input_left)) \cap Range(TableRows(input_right)) :
           Count(TableRows(set_union.output), row) =
               Max(Count(TableRows(input_left), row), Count(TableRows(input_right), row))

\* C4 witness: a row the inputs share, once in each, next to rows they do not share
C4_Witness ==
    /\ set_union.status = "ok" /\ BothReferences
    /\ \E row \in Range(TableRows(input_left)) \cap Range(TableRows(input_right)) :
          /\ Count(TableRows(input_left), row) = 1
          /\ Count(TableRows(input_right), row) = 1
          /\ Count(TableRows(set_union.output), row) = 1
    /\ Len(TableRows(set_union.output)) = 3

\* C5 as claimed: for inputs of the same schema, if the left table has no rows
\* the result is the right table, and if only the right table has no rows the
\* result is the left table.
C5_EmptyInputReturnsOther ==
    (set_union.executed /\ SameSchema)
    => /\ row_count(input_left) = 0
          => set_union.status = "ok" /\ set_union.output = input_right
       /\ (row_count(input_left) > 0 /\ row_count(input_right) = 0)
          => set_union.status = "ok" /\ set_union.output = input_left
       /\ (row_count(input_left) = 0 /\ row_count(input_right) = 0)
          => row_count(set_union.output) = 0

\* C5 as amended: the same for inputs of at least one column; for inputs
\* without columns the result is the left table.
C5_EmptyInputReturnsOtherWithColumns ==
    (set_union.executed /\ SameSchema)
    => /\ (column_count(input_left) > 0 /\ row_count(input_left) = 0)
          => set_union.status = "ok" /\ set_union.output = input_right
                /\ set_union.from = "right"
       /\ (row_count(input_left) > 0 /\ row_count(input_right) = 0)
          => set_union.status = "ok" /\ set_union.output = input_left
                /\ set_union.from = "left"
       /\ (row_count(input_left) = 0 /\ row_count(input_right) = 0)
          => row_count(set_union.output) = 0
       /\ column_count(input_left) = 0
          => set_union.status = "ok" /\ set_union.output = input_left
                /\ set_union.from = "left"

\* C5 witness: the left table has columns and no rows, the right has rows and
\* is another table, and it is the result
C5_Witness ==
    /\ set_union.executed
    /\ column_count(input_left) > 0 /\ row_count(input_left) = 0
    /\ row_count(input_right) > 0
    /\ input_left.chunk_size # input_right.chunk_size
    /\ set_union.output = input_right

\* every chunk but the last holds out_chunk_size rows and the last 1 up to
\* out_chunk_size rows; without a chunk size all rows are in one chunk
ChunkingHolds(table, out_chunk_size) ==
    IF out_chunk_size > 0
    THEN /\ \A c \in 1..(Len(table.chunks) - 1) : table.chunks[c].size = out_chunk_size
         /\ \A c \in {Len(table.chunks)} \ {0} :
                table.chunks[c].size >= 1 /\ table.chunks[c].size <= out_chunk_size
    ELSE Len(table.chunks) = 1

\* C6 as claimed: the chunks of every result of SetUnion that holds rows are
\* filled to max(left chunk size, right chunk size).
C6_ChunkingOfEveryResult ==
    (set_union.status = "ok" /\ row_count(set_union.output) > 0)
    => ChunkingHolds(set_union.output, Max(input_left.chunk_size, input_right.chunk_size))

\* C6 as amended: when both inputs hold rows, the chunks of the result are
\* filled to max(left chunk size, right chunk size): all but the last hold
\* that many rows, the last at least one, and a chunk size of 0 gives a single chunk.
C6_ChunkingOfMergedResult ==
    (/\ set_union.status = "ok"
     /\ row_count(input_left) > 0 /\ row_count(input_right) > 0)
    => /\ ChunkingHolds(set_union.output, Max(input_left.chunk_size, input_right.chunk_size))
       /\ set_union.output.chunk_size = Max(input_left.chunk_size, input_right.chunk_size)
       /\ Len(set_union.output.chunks) >= 1

\* C6 witness: a result of a full chunk and a last chunk that is not full,
\* the chunk size being that of the right input
C6_Witness ==
    /\ set_union.from = "new"
    /\ input_left.chunk_size < input_right.chunk_size
    /\ Len(set_union.output.chunks) = 2
    /\ set_union.output.chunks[1].size = input_right.chunk_size
    /\ set_union.output.chunks[2].size < input_right.chunk_size

\* C7: SetUnion fails and has no result table when the inputs differ in the
\* number of columns or in the name or the type of a column.
C7_LayoutMismatchFails ==
    (/\ set_union.executed
     /\ \/ Len(input_left.column_definitions) # Len(input_right.column_definitions)
        \/ \E i \in 1..Len(input_left.column_definitions) :
              \/ input_left.column_definitions[i].name # input_right.column_definitions[i].name
              \/ input_left.column_definitions[i].type # input_right.column_definitions[i].type)
    => set_union.status = "failed" /\ set_union.output = NoTable

\* C7 witness: the second columns differ in nothing but the name, and SetUnion failed
C7_Witness ==
    /\ set_union.status = "failed"
    /\ Len(input_left.column_definitions) = 2 /\ Len(input_right.column_definitions) = 2
    /\ input_left.column_definitions[1] = input_right.column_definitions[1]
    /\ input_left.column_definitions[2].type = input_right.column_definitions[2].type
    /\ input_left.column_definitions[2].name # input_right.column_definitions[2].name

\* ----------------------------------------- DictionaryEncoder: properties

RowIsNull(column, i) == column.nullable /\ column.null_values[i]

\* C8: after encoding, every row that is not NULL holds the value id of its
\* value, which is never the null value id, and every NULL row holds the
\* null value id.
C8_RoundTrip ==
    dictionary_column.encoded
    => /\ Len(dictionary_column.attribute_vector) = Len(value_column.values)
       /\ \A i \in 1..Len(value_column.values) :
            LET value_id == dictionary_column.attribute_vector[i]
            IN  IF RowIsNull(value_column, i)
                THEN value_id = dictionary_column.null_value_id
                ELSE /\ value_id # dictionary_column.null_value_id
                     /\ value_id + 1 \in 1..Len(dictionary_column.dictionary)
                     /\ dictionary_column.dictionary[value_id + 1] = value_column.values[i]

\* C8 witness: an encoded nullable column with a NULL row between rows of
\* different values, the NULL row holding a value no other row holds
C8_Witness ==
    /\ dictionary_column.encoded
    /\ value_column.nullable
    /\ Len(value_column.values) = 3
    /\ value_column.null_values = <<FALSE, TRUE, FALSE>>
    /\ value_column.values[1] > value_column.values[3]
    /\ value_column.values[2] > value_column.values[1]

\* C9: the dictionary is strictly ascending, holds exactly the values of the
\* rows that are not NULL, and the null value id is its size.
C9_Dictionary ==
    dictionary_column.encoded
    => LET dictionary == dictionary_column.dictionary
       IN  /\ \A k \in 1..(Len(dictionary) - 1) : dictionary[k] < dictionary[k + 1]
           /\ {dictionary[k] : k \in 1..Len(dictionary)} =
                  {value_column.values[i] :
                      i \in {j \in 1..Len(value_column.values) : ~RowIsNull(value_column, j)}}
           /\ dictionary_column.null_value_id = Len(dictionary)

\* C9 witness: ["b", NULL, "a", "a"] (a = 1, b = 2) gives the dictionary
\* ["a", "b"], the null value id 2 and the attribute vector [1, 2, 0, 0]
C9_Witness ==
    /\ dictionary_column.encoded
    /\ value_column.nullable
    /\ value_column.null_values = <<FALSE, TRUE, FALSE, FALSE>>
    /\ value_column.values[1] = 2 /\ value_column.values[3] = 1 /\ value_column.values[4] = 1
    /\ value_column.values[2] = 3
    /\ dictionary_column.dictionary = <<1, 2>>
    /\ dictionary_column.null_value_id = 2
    /\ dictionary_column.attribute_vector = <<1, 2, 0, 0>>

\* the narrowest fixed-size byte-aligned type whose largest value is at least max_value
NarrowestZsType(max_value) ==
    IF max_value <= 255 THEN "FixedSize1ByteAligned"
    ELSE IF max_value <= 65535 THEN "FixedSize2ByteAligned"
    ELSE "FixedSize4ByteAligned"

\* C10: the attribute vector is encoded with the narrowest fixed-size
\* byte-aligned type whose largest value is at least dictionary.size().
C10_NarrowestEncoding ==
    zs_type # "none" => zs_type = NarrowestZsType(dictionary_size)

\* ------------------------------------------------ SIMD-BP128: properties

\* C11: once a sequence of values of bit size 1..32 is encoded, the vector's
\* size() is the length of the sequence (not the padded length), and whichever
\* of the traversal from cbegin to cend, get(i) for every index, and decode()
\* has read the vector has read the sequence, element by element.
C11_RoundTrip ==
    encoded_sequence.encoded =>
        /\ encoded_sequence.size = Len(sequence)
        /\ decoded_sequence.way \in {"iterators", "decoder", "decode"} =>
              decoded_sequence.values = sequence

\* a sequence of 32-bit values that ends inside a block of a second meta-block
\* has been encoded and read back with get(i)
C11_Witness ==
    /\ bit_size = 32
    /\ Len(sequence) = meta_block_size + 1
    /\ encoded_sequence.encoded
    /\ decoded_sequence.way = "decoder"
    /\ Len(decoded_sequence.values) = meta_block_size + 1

\* --------------------------------------------- RunLengthColumn: properties

\* the 0-based k that is the smallest with end_positions[k] >= r
SmallestRunNotBefore(column, r) ==
    CHOOSE k \in 0..(Len(column.end_positions) - 1) :
        /\ column.end_positions[k + 1] >= r
        /\ \A j \in 0..(k - 1) : column.end_positions[j + 1] < r

\* C12: for a column whose end positions are strictly increasing and a row
\* r < size(), operator[](r) returns values[k] for the smallest k with
\* end_positions[k] >= r; such a k exists and is an index into values; the
\* result is NULL exactly when values[k] is the NULL sentinel.
C12_RunLengthLookup ==
    access.accessed =>
        LET column == run_length_column
            r == access.chunk_offset
        IN /\ \E k \in 0..(Len(column.values) - 1) : column.end_positions[k + 1] >= r
           /\ LET k == SmallestRunNotBefore(column, r)
              IN /\ k < Len(column.values)
                 /\ access.result.is_null <=> column.values[k + 1] = column.null_value
                 /\ ~access.result.is_null => access.result.value = column.values[k + 1]

\* a row that is the last of a run that is not the last run, holding a value
\* that is not NULL, while another run of the column is NULL
C12_Witness ==
    /\ access.accessed
    /\ ~access.result.is_null
    /\ \E k \in 1..(Len(run_length_column.end_positions) - 1) :
          run_length_column.end_positions[k] = access.chunk_offset
    /\ \E k \in 1..Len(run_length_column.values) :
          run_length_column.values[k] = run_length_column.null_value

\* ----------------------------------------------- SQLTranslator: properties

RECURSIVE PlanChain(_, _)
\* the nodes from the given one downwards, each the left child of the one before
PlanChain(nodes, node) ==
    IF node = 0 THEN <<>> ELSE <<node>> \o PlanChain(nodes, nodes[node].left_child)

\* the statement aggregates: it has a GROUP BY or a function in its select list
IsAggregate(select) ==
    \/ select.groupBy # nullptr
    \/ \E i \in 1..Len(select.selectList) : select.selectList[i].type = "kExprFunctionRef"

HasHaving(select) == select.groupBy # nullptr /\ select.groupBy[1].having # nullptr

\* the sub-plan of the statement's table reference, translated alone
TableRefPlan == _translate_table_ref(statement.fromTable, <<>>, validate)

\* the types of the nodes of the plan above the table reference, root first
TypesAboveTableRef ==
    LET chain == PlanChain(lqp.nodes, lqp.node)
        position == CHOOSE i \in 1..Len(chain) : chain[i] = TableRefPlan.node
    IN [i \in 1..(position - 1) |-> lqp.nodes[chain[i]].type]

Filters == {"Predicate", "Union"}

\* C13: in the plan of a SELECT statement, read from the root downwards, come
\* the LimitNode (if there is a LIMIT), the SortNode (if the ORDER BY list is
\* not empty), the projection or the aggregate sandwich (projection, HAVING
\* predicates and unions, AggregateNode), the WHERE predicates and unions (if
\* there is a WHERE) and the table reference, which was built first; a clause
\* that is absent contributes no node.
C13_ClauseOrder ==
    (lqp.translated /\ lqp.ok) =>
        LET has_limit == statement.limit # nullptr
            has_sort == statement.order # nullptr /\ statement.order[1] # <<>>
            above == TypesAboveTableRef
            first == (IF has_limit THEN 1 ELSE 0) + (IF has_sort THEN 1 ELSE 0) + 1
            below_projection == SubSeq(above, first + 1, Len(above))
        IN /\ TableRefPlan.ok
           /\ SubSeq(lqp.nodes, 1, Len(TableRefPlan.nodes)) = TableRefPlan.nodes
           /\ TableRefPlan.node \in Range(PlanChain(lqp.nodes, lqp.node))
           /\ Len(above) >= first
           /\ has_limit => above[1] = "Limit"
           /\ has_sort => above[first - 1] = "Sort"
           /\ above[first] = "Projection"
           /\ IF IsAggregate(statement)
              THEN \E k \in 1..Len(below_projection) :
                      /\ below_projection[k] = "Aggregate"
                      /\ \A j \in 1..Len(below_projection) :
                            j # k => below_projection[j] \in Filters
                      /\ k > 1 <=> HasHaving(statement)
                      /\ k < Len(below_projection) <=> statement.whereClause # nullptr
              ELSE /\ \A j \in 1..Len(below_projection) : below_projection[j] \in Filters
                   /\ below_projection # <<>> <=> statement.whereClause # nullptr

\* a validated statement with WHERE, GROUP BY, HAVING, ORDER BY and LIMIT
C13_Witness ==
    /\ lqp.translated /\ lqp.ok /\ validate
    /\ statement.whereClause # nullptr
    /\ HasHaving(statement)
    /\ statement.order # nullptr /\ statement.order[1] # <<>>
    /\ statement.limit # nullptr
    /\ TypesAboveTableRef =
          <<"Limit", "Sort", "Projection", "Predicate", "Aggregate", "Union", "Predicate">>

\* the node the projection or the AggregateNode of the plan is built on
SelectionInput ==
    LET chain == PlanChain(lqp.nodes, lqp.node)
        type == IF IsAggregate(statement) THEN "Aggregate" ELSE "Projection"
        selection == CHOOSE i \in 1..Len(chain) :
                        /\ lqp.nodes[chain[i]].type = type
                        /\ \A j \in 1..(i - 1) : lqp.nodes[chain[j]].type # type
    IN lqp.nodes[chain[selection]].left_child

RECURSIVE IsWherePlan(_, _, _)
\* node is the translation of expr on input_node: a UnionNode(Positions) of
\* both sides on input_node for OR, the right side on the left side on
\* input_node for AND, a PredicateNode on input_node otherwise
IsWherePlan(expr, node, input_node) ==
    CASE expr.opType = "kOpOr" ->
            /\ lqp.nodes[node].type = "Union"
            /\ lqp.nodes[node].data.union_mode = "Positions"
            /\ IsWherePlan(expr.expr[1], lqp.nodes[node].left_child, input_node)
            /\ IsWherePlan(expr.expr2[1], lqp.nodes[node].right_child, input_node)
      [] expr.opType = "kOpAnd" ->
            \E left \in 1..Len(lqp.nodes) :
                /\ IsWherePlan(expr.expr[1], left, input_node)
                /\ IsWherePlan(expr.expr2[1], node, left)
      [] OTHER ->
            /\ lqp.nodes[node].type = "Predicate"
            /\ lqp.nodes[node].left_child = input_node
            /\ lqp.nodes[node].right_child = 0

\* C14: the translation of a WHERE clause `A OR B` is a UnionNode(Positions)
\* whose left child is the translation of A and whose right child is the
\* translation of B, both on the same input node; the translation of
\* `A AND B` is the translation of B on top of the translation of A, which is
\* on the input node.
C14_WhereOrAnd ==
    (lqp.translated /\ lqp.ok /\ statement.whereClause # nullptr) =>
        IsWherePlan(statement.whereClause[1], SelectionInput, TableRefPlan.node)

\* WHERE (A OR B) AND C: the predicates of A and of B are both on the table
\* reference, the predicate of C is on their UnionNode
C14_Witness ==
    /\ lqp.translated /\ lqp.ok /\ statement.whereClause # nullptr
    /\ statement.whereClause[1].opType = "kOpAnd"
    /\ statement.whereClause[1].expr[1].opType = "kOpOr"
    /\ LET union == lqp.nodes[SelectionInput].left_child
       IN /\ lqp.nodes[union].type = "Union"
          /\ lqp.nodes[lqp.nodes[union].left_child].left_child = TableRefPlan.node
          /\ lqp.nodes[lqp.nodes[union].right_child].left_child = TableRefPlan.node

\* the ColumnOrigin of the column of that name of the stored table T1, which
\* is the first node of the plans of the statements on T1
T1Origin(name) == <<1, (CHOOSE i \in 1..Len(Tables.T1) : Tables.T1[i] = name) - 1>>

\* a column, literal or placeholder of a predicate on T1 as the PredicateNode
\* holds it
OperandValue(expr) ==
    CASE expr.type = "kExprColumnRef" -> AllParameterVariant("ColumnOrigin",
                                                             T1Origin(expr.name))
      [] expr.type = "kExprLiteralInt" -> AllParameterVariant("AllTypeVariant",
                                                              AllTypeVariant(expr.ival))
      [] expr.type = "kExprPlaceholder" -> AllParameterVariant("ValuePlaceholder", expr.ival)

\* > <-> <, >= <-> <=, every other scan type unchanged
Remapped(scan_type) ==
    CASE scan_type = "OpGreaterThan" -> "OpLessThan"
      [] scan_type = "OpLessThan" -> "OpGreaterThan"
      [] scan_type = "OpGreaterThanEquals" -> "OpLessThanEquals"
      [] scan_type = "OpLessThanEquals" -> "OpGreaterThanEquals"
      [] scan_type \in {"OpEquals", "OpNotEquals", "OpLike", "OpNotLike"} -> scan_type

IsComparison(expr) == expr.type = "kExprOperator" /\ expr.opType \in Comparisons

IsColumn(expr) == expr.type = "kExprColumnRef"

IsColumnOrAggregate(expr) == expr.type \in {"kExprColumnRef", "kExprFunctionRef"}

\* the statement is SELECT * FROM T1 WHERE comparison
WhereComparison == statement \in WhereStatements /\ IsComparison(statement.whereClause[1])

\* the statement has a HAVING clause that is one comparison
HavingComparison == HasHaving(statement) /\ IsComparison(statement.groupBy[1].having[1])

\* the PredicateNode of a WHERE clause that is one predicate
WherePredicate == lqp.nodes[SelectionInput].data

\* the ProjectionNode nearest to the root of the plan
FinalProjection ==
    LET chain == PlanChain(lqp.nodes, lqp.node)
    IN lqp.nodes[chain[CHOOSE i \in 1..Len(chain) :
                          /\ lqp.nodes[chain[i]].type = "Projection"
                          /\ \A j \in 1..(i - 1) : lqp.nodes[chain[j]].type # "Projection"]]

\* the PredicateNode of a HAVING clause that is one predicate
HavingPredicate == lqp.nodes[FinalProjection.left_child].data

\* C15 as the specification states it: a comparison is translated if exactly
\* one side refers to a column, and fails otherwise.
C15_ExactlyOneSide ==
    (lqp.translated /\ WhereComparison) =>
        LET comparison == statement.whereClause[1]
        IN lqp.ok <=> (IsColumn(comparison.expr[1]) # IsColumn(comparison.expr2[1]))

\* C15: a comparison (not BETWEEN) fails if neither side refers to a column
\* (in HAVING: a column or an aggregate); if the left side refers to one, it is
\* scanned with the scan type of the operator and the right side is the value,
\* a column too; if only the right side refers to one, the operands are
\* swapped and the scan type is remapped by > <-> <, >= <-> <=, with =, !=,
\* Like and NotLike unchanged: `WHERE 5 > a` gives (column a, <, 5).
C15_AtLeastOneSide ==
    /\ (lqp.translated /\ WhereComparison) =>
          LET comparison == statement.whereClause[1]
              left == comparison.expr[1]
              right == comparison.expr2[1]
              scan_type == translate_operator_type_to_scan_type(comparison.opType)
          IN IF ~IsColumn(left) /\ ~IsColumn(right) THEN ~lqp.ok /\ lqp.nodes = <<>>
             ELSE /\ lqp.ok
                  /\ WherePredicate =
                        IF IsColumn(left)
                        THEN [column_origin |-> T1Origin(left.name), scan_type |-> scan_type,
                              value |-> OperandValue(right), value2 |-> <<>>]
                        ELSE [column_origin |-> T1Origin(right.name),
                              scan_type |-> Remapped(scan_type),
                              value |-> OperandValue(left), value2 |-> <<>>]
    /\ (lqp.translated /\ HavingComparison) =>
          LET comparison == statement.groupBy[1].having[1]
              left == comparison.expr[1]
              right == comparison.expr2[1]
              scan_type == translate_operator_type_to_scan_type(comparison.opType)
          IN /\ (~IsColumnOrAggregate(left) /\ ~IsColumnOrAggregate(right)) => ~lqp.ok
             /\ lqp.ok =>
                   HavingPredicate.scan_type = IF IsColumnOrAggregate(left) THEN scan_type
                                               ELSE Remapped(scan_type)

\* WHERE 5 > a, translated to (column a, <, 5)
C15_Witness ==
    /\ lqp.translated /\ lqp.ok /\ WhereComparison
    /\ statement.whereClause[1] = Operator("kOpGreater", LiteralInt(5), Column("a"))
    /\ WherePredicate = [column_origin |-> T1Origin("a"), scan_type |-> "OpLessThan",
                         value |-> AllParameterVariant("AllTypeVariant", AllTypeVariant(5)),
                         value2 |-> <<>>]

\* the statement is SELECT * FROM T1 WHERE expr BETWEEN ...
WhereBetween ==
    statement \in WhereStatements /\ statement.whereClause[1].opType = "kOpBetween"

\* C16: every PredicateNode of a plan has value2 engaged if and only if its
\* scan type is Between; expr BETWEEN exprList is translated if and only if
\* exprList has exactly two entries, the second is a literal and expr refers to
\* a column (it fails if the second is a column or a placeholder), and then the
\* column scanned is expr, value is exprList[0] and value2 is exprList[1].
C16_Value2 ==
    /\ (lqp.translated /\ lqp.ok) =>
          \A n \in 1..Len(lqp.nodes) :
              lqp.nodes[n].type = "Predicate" =>
                  (lqp.nodes[n].data.value2 # <<>>
                      <=> lqp.nodes[n].data.scan_type = "OpBetween")
    /\ (lqp.translated /\ WhereBetween) =>
          LET between == statement.whereClause[1]
              exprList == between.exprList[1]
          IN /\ lqp.ok <=> /\ Len(exprList) = 2
                           /\ exprList[2].type = "kExprLiteralInt"
                           /\ IsColumn(between.expr[1])
             /\ lqp.ok =>
                   WherePredicate =
                       [column_origin |-> T1Origin(between.expr[1].name),
                        scan_type |-> "OpBetween",
                        value |-> OperandValue(exprList[1]),
                        value2 |-> <<AllTypeVariant(exprList[2].ival)>>]

\* WHERE a BETWEEN b AND 5: value is the column b, value2 the literal 5
C16_Witness ==
    /\ lqp.translated /\ lqp.ok /\ WhereBetween
    /\ WherePredicate.value = AllParameterVariant("ColumnOrigin", T1Origin("b"))
    /\ WherePredicate.value2 = <<AllTypeVariant(5)>>

\* the statement is SELECT * FROM T1 JOIN right ON condition, not NATURAL
JoinOnCondition ==
    statement \in JoinStatements /\ statement.fromTable.join[1].type # "kJoinNatural"

\* the column reference names a column of the stored table
ResolvesIn(expr, table) == expr.name \in Range(Tables[table]) /\ expr.table \in {"", table}

\* the column reference resolves in exactly one of the inputs of the join
ResolvesInOne(expr, join) ==
    ResolvesIn(expr, join.left.name) # ResolvesIn(expr, join.right.name)

SimpleComparisons ==
    {"kOpEquals", "kOpNotEquals", "kOpLess", "kOpLessEq", "kOpGreater", "kOpGreaterEq"}

\* a simple comparison of two column references
IsSimpleCondition(condition) ==
    /\ condition.type = "kExprOperator"
    /\ condition.opType \in SimpleComparisons
    /\ IsColumn(condition.expr[1]) /\ IsColumn(condition.expr2[1])

\* C17: the translation of a join that is not NATURAL fails, and makes no
\* JoinNode, if the condition is not a simple comparison of two column
\* references, or if an operand resolves in both inputs or in neither; a
\* condition whose operands resolve one in the left and one in the right input
\* gives a JoinNode.
C17_JoinOperands ==
    (lqp.translated /\ JoinOnCondition) =>
        LET join == statement.fromTable.join[1]
            condition == join.condition[1]
        IN /\ (\/ ~IsSimpleCondition(condition)
               \/ ~ResolvesInOne(condition.expr[1], join)
               \/ ~ResolvesInOne(condition.expr2[1], join))
              => (~lqp.ok /\ \A n \in 1..Len(lqp.nodes) : lqp.nodes[n].type # "Join")
           /\ (/\ IsSimpleCondition(condition)
               /\ ResolvesInOne(condition.expr[1], join)
               /\ ResolvesInOne(condition.expr2[1], join)
               /\ ResolvesIn(condition.expr[1], join.left.name)
                     # ResolvesIn(condition.expr2[1], join.left.name))
              => (lqp.ok /\ \E n \in 1..Len(lqp.nodes) : lqp.nodes[n].type = "Join")

\* T1 JOIN T2 ON b = c: b is a column of both inputs, c of the right one only
C17_Witness ==
    /\ lqp.translated /\ JoinOnCondition /\ ~lqp.ok
    /\ LET join == statement.fromTable.join[1]
           condition == join.condition[1]
       IN /\ IsSimpleCondition(condition)
          /\ ResolvesIn(condition.expr[1], join.left.name)
          /\ ResolvesIn(condition.expr[1], join.right.name)
          /\ ResolvesInOne(condition.expr2[1], join)

\* the statement is SELECT * FROM left NATURAL JOIN right, both stored tables
NaturalJoinOfTables ==
    /\ statement \in JoinStatements
    /\ statement.fromTable.join[1].type = "kJoinNatural"
    /\ statement.fromTable.join[1].left.type = "kTableName"

\* C18 as the specification states it: the NATURAL JOIN of two tables whose
\* column names share the set S is a Cross JoinNode, exactly |S| PredicateNodes
\* with scan type = above it, each of a column of the left input and the
\* column of that name of the right input, and a ProjectionNode above them
\* that outputs each shared name once; without a shared name it fails.
C18_NaturalJoinDeduplicates ==
    (lqp.translated /\ NaturalJoinOfTables) =>
        LET join == statement.fromTable.join[1]
            S == Range(Tables[join.left.name]) \cap Range(Tables[join.right.name])
        IN IF S = {} THEN ~lqp.ok
           ELSE /\ lqp.ok
                /\ LET projection == lqp.nodes[lqp.node].left_child
                       chain == PlanChain(lqp.nodes, projection)
                       names == output_column_names(lqp.nodes, projection)
                   IN /\ lqp.nodes[projection].type = "Projection"
                      /\ Len(chain) >= Cardinality(S) + 2
                      /\ \A k \in 2..(Cardinality(S) + 1) :
                            /\ lqp.nodes[chain[k]].type = "Predicate"
                            /\ lqp.nodes[chain[k]].data.scan_type = "OpEquals"
                      /\ lqp.nodes[chain[Cardinality(S) + 2]].type = "Join"
                      /\ lqp.nodes[chain[Cardinality(S) + 2]].data.join_mode = "Cross"
                      /\ \A name \in S : Cardinality({i \in 1..Len(names) :
                                                         names[i] = name}) = 1

\* the statement is an aggregating SELECT selectList FROM T1 [GROUP BY ...]
AggregatingSelect == statement \in AggregateStatements /\ IsAggregate(statement)

\* the column is named in the GROUP BY list
InGroupBy(expr) ==
    /\ statement.groupBy # nullptr
    /\ \E i \in 1..Len(statement.groupBy[1].columns) :
          statement.groupBy[1].columns[i].name = expr.name

\* the messages of the loop of _translate_aggregate over the select list
SelectListErrors ==
    {"SELECT list of aggregate contains a column, but the query does not have a GROUP BY clause.",
     "Column is specified in SELECT list, but not in GROUP BY clause.",
     "Unsupported item in projection list for AggregateOperator."}

\* C19 as the specification states it: a select list of aggregate functions,
\* stars and GROUP BY columns is not rejected; one with a column that is not in
\* the GROUP BY list fails.
C19_StarAccepted ==
    (lqp.translated /\ AggregatingSelect) =>
        LET items == Range(statement.selectList)
        IN /\ (\A item \in items :
                  \/ item.type \in {"kExprFunctionRef", "kExprStar"}
                  \/ (IsColumn(item) /\ InGroupBy(item)))
              => lqp.error \notin SelectListErrors
           /\ (\E item \in items : IsColumn(item) /\ ~InGroupBy(item)) => ~lqp.ok

\* C19: in an aggregating SELECT a select list of aggregate functions and
\* columns of the GROUP BY list is not rejected; a star, or a column that is
\* not in the GROUP BY list (any column when there is no GROUP BY), makes the
\* translation fail and no plan is returned; the star fails as an unsupported
\* item.
C19_AggregateOrGroupByColumn ==
    (lqp.translated /\ AggregatingSelect) =>
        LET items == Range(statement.selectList)
        IN /\ (\A item \in items :
                  \/ item.type = "kExprFunctionRef"
                  \/ (IsColumn(item) /\ InGroupBy(item)))
              => lqp.error \notin SelectListErrors
           /\ (\E item \in items :
                  item.type = "kExprStar" \/ (IsColumn(item) /\ ~InGroupBy(item)))
              => (~lqp.ok /\ lqp.nodes = <<>>)
           /\ (/\ statement.selectList[1].type = "kExprStar"
               /\ statement.groupBy # nullptr
                     => \A i \in 1..Len(statement.groupBy[1].columns) :
                           statement.groupBy[1].columns[i].name \in Range(Tables.T1))
              => lqp.error = "Unsupported item in projection list for AggregateOperator."

\* SELECT *, SUM(b) FROM T1 GROUP BY a, rejected
C19_Witness ==
    /\ lqp.translated /\ AggregatingSelect
    /\ statement.selectList = <<Star, Sum("b", "")>>
    /\ statement.groupBy # nullptr
    /\ lqp.error = "Unsupported item in projection list for AggregateOperator."

\* the AggregateNode of the plan
AggregateNode ==
    LET chain == PlanChain(lqp.nodes, lqp.node)
    IN chain[CHOOSE i \in 1..Len(chain) : lqp.nodes[chain[i]].type = "Aggregate"]

\* C20 as the specification states it: the aggregate expressions are those of
\* the select list, in its order, followed by those of HAVING that equal none
\* before them, each once; the final ProjectionNode outputs none of the columns
\* of the aggregates added for HAVING.
C20_HavingAggregatesHidden ==
    (lqp.translated /\ lqp.ok /\ AggregatingSelect /\ HasHaving(statement)) =>
        LET aggregate == lqp.nodes[AggregateNode].data
            expressions == aggregate.aggregate_expressions
            selected == SelectSeq(statement.selectList,
                                  LAMBDA item : item.type = "kExprFunctionRef")
            having == _retrieve_having_aggregates(lqp.nodes, statement.groupBy[1].having[1],
                                                  1).expressions
            added == {i \in (Len(selected) + 1)..Len(expressions) : TRUE}
        IN /\ Len(expressions) >= Len(selected)
           /\ \A i \in 1..Len(selected) :
                 /\ expressions[i].aggregate_function = <<selected[i].name>>
                 /\ expressions[i].alias = optional_string(selected[i].alias)
           /\ \A i \in added :
                 /\ expressions[i] \in Range(having)
                 /\ \A j \in 1..(i - 1) : ~operator_equals(expressions[j], expressions[i])
           /\ \A k \in 1..Len(having) :
                 \E i \in 1..Len(expressions) : operator_equals(expressions[i], having[k])
           /\ \A i \in added :
                 \A e \in 1..Len(FinalProjection.data.expressions) :
                     FinalProjection.data.expressions[e].column_origin #
                         <<<<AggregateNode, Len(aggregate.groupby_column_origins) + i - 1>>>>

\* -------------------------------- SQLTranslator: INSERT, UPDATE and DELETE

\* the statement was translated to a plan
Accepted(type) == lqp.translated /\ lqp.ok /\ statement.type = type

\* the node under the root of the plan
Source == lqp.nodes[lqp.nodes[lqp.node].left_child]

\* the column ids (from 1) of the target table that the column list names
ColumnIdOf(column_name) ==
    CHOOSE column_id \in 1..Len(Tables[statement.tableName]) :
        Tables[statement.tableName][column_id] = column_name

\* what the source of the INSERT gives the i-th listed column, if it has it
HasInsertedExpression(i) ==
    IF statement.insertType = "kInsertValues" THEN i <= Len(statement.values[1])
    ELSE i <= Len(lqp.nodes[Source.left_child].columns)

InsertedExpression(i) ==
    IF statement.insertType = "kInsertValues"
    THEN to_lqp_expression(<<>>, statement.values[1][i], 0).expression
    ELSE create_column(lqp.nodes[Source.left_child].columns[i].origin, <<>>)

\* the source is a ProjectionNode of as many expressions as the target table
\* has columns, NULL literals in the columns that are not listed
InsertProjection ==
    LET columns == statement.columns[1]
        target_table == Tables[statement.tableName]
    IN /\ lqp.nodes[lqp.node].type = "Insert"
       /\ lqp.nodes[lqp.node].data.table_name = statement.tableName
       /\ Source.type = "Projection"
       /\ Len(Source.data.expressions) = Len(target_table)
       /\ \A column_id \in 1..Len(target_table) :
             (\A i \in 1..Len(columns) : columns[i] # target_table[column_id])
                 => Source.data.expressions[column_id] = create_literal(NULL_VALUE, <<>>)

\* the number of output columns of the source of an INSERT without column list
SourceColumnCount ==
    IF statement.insertType = "kInsertValues" THEN <<Len(statement.values[1])>>
    ELSE LET select == _translate_select(statement.select[1], <<>>, validate)
         IN IF select.ok THEN <<output_column_count(select.nodes, select.node)>> ELSE <<>>

\* an INSERT without column list whose source has not as many columns as the
\* target table is rejected
InsertMismatchRejected ==
    (/\ lqp.translated /\ statement.type = "kStmtInsert" /\ statement.columns = nullptr
     /\ statement.tableName \in DOMAIN Tables
     /\ SourceColumnCount # <<Len(Tables[statement.tableName])>>)
        => ~lqp.ok

\* C21 as the specification states it: for an INSERT with a column list the
\* source ProjectionNode has as many expressions as the target table has
\* columns, NULL literals in the columns that are not listed, and the i-th
\* listed column holds the i-th value, or the i-th output column of the
\* select; without a column list a source of another column count is rejected.
C21_ListedColumnReceivesItsValue ==
    /\ InsertMismatchRejected
    /\ (Accepted("kStmtInsert") /\ statement.columns # nullptr) =>
           /\ InsertProjection
           /\ \A i \in 1..Len(statement.columns[1]) :
                 HasInsertedExpression(i) =>
                     Source.data.expressions[ColumnIdOf(statement.columns[1][i])]
                         = InsertedExpression(i)

\* C21: for an INSERT with a column list the source ProjectionNode has as many
\* expressions as the target table has columns, NULL literals in the columns
\* that are not listed, and a listed column holds the value, or the output
\* column of the select, at the position of its last occurrence in the list;
\* without a column list a source of another column count is rejected.
C21_ListedColumnReceivesLastValue ==
    /\ InsertMismatchRejected
    /\ (Accepted("kStmtInsert") /\ statement.columns # nullptr) =>
           /\ InsertProjection
           /\ \A i \in 1..Len(statement.columns[1]) :
                 (/\ HasInsertedExpression(i)
                  /\ \A later \in (i + 1)..Len(statement.columns[1]) :
                        statement.columns[1][later] # statement.columns[1][i])
                     => Source.data.expressions[ColumnIdOf(statement.columns[1][i])]
                            = InsertedExpression(i)

\* INSERT INTO T1 (b, a) VALUES (1, 2): the projection is (2, 1); and
\* INSERT INTO T1 VALUES (1) is rejected for its column count
C21_Witness ==
    /\ Accepted("kStmtInsert") /\ statement.columns = <<<<"b", "a">>>>
    /\ statement.insertType = "kInsertValues"
    /\ Len(statement.values[1]) = 2
    /\ Source.data.expressions =
          <<to_lqp_expression(<<>>, statement.values[1][2], 0).expression,
            to_lqp_expression(<<>>, statement.values[1][1], 0).expression>>

\* the source of the UPDATE, and its expression list
UpdateExpressions == lqp.nodes[lqp.node].data.expressions

\* the UpdateNode has one expression per input column: the column itself where
\* SET does not name it, the value of a SET entry that names it otherwise
UpdateNodeExpressions ==
    /\ lqp.nodes[lqp.node].type = "Update"
    /\ Len(UpdateExpressions) = Len(Source.columns)
    /\ \A column_id \in 1..Len(Source.columns) :
          LET naming == {i \in 1..Len(statement.updates) :
                            statement.updates[i].column = Source.columns[column_id].name}
          IN IF naming = {}
             THEN UpdateExpressions[column_id]
                      = create_column(Source.columns[column_id].origin, <<>>)
             ELSE \E i \in naming :
                     LET value == to_lqp_expression(
                                      lqp.nodes, statement.updates[i].value,
                                      lqp.nodes[lqp.node].left_child)
                     IN /\ value.ok
                        /\ UpdateExpressions[column_id]
                               = [value.expression
                                     EXCEPT !.alias = <<statement.updates[i].column>>]

PlanTypes ==
    LET chain == PlanChain(lqp.nodes, lqp.node)
    IN [i \in 1..Len(chain) |-> lqp.nodes[chain[i]].type]

\* the plan is DeleteNode, the predicates and unions of WHERE, the ValidateNode
\* if there is to be one, and the StoredTableNode
DeletePlan(validated) ==
    LET types == PlanTypes
        below == IF validated THEN <<"Validate", "StoredTable">> ELSE <<"StoredTable">>
        filters == SubSeq(types, 2, Len(types) - Len(below))
        chain == PlanChain(lqp.nodes, lqp.node)
    IN /\ Len(types) >= 1 + Len(below)
       /\ types[1] = "Delete"
       /\ lqp.nodes[lqp.node].data.table_name = statement.tableName
       /\ SubSeq(types, Len(types) - Len(below) + 1, Len(types)) = below
       /\ lqp.nodes[chain[Len(chain)]].data.table_name = statement.tableName
       /\ \A i \in 1..Len(filters) : filters[i] \in Filters
       /\ filters # <<>> <=> statement.expr # nullptr
       /\ statement.expr # nullptr =>
              IsWherePlan(statement.expr[1], lqp.nodes[lqp.node].left_child,
                          chain[Len(chain) - Len(below) + 1])

\* C23 as the specification states it: the plan of a DELETE is StoredTable,
\* Validate, the predicates and unions of WHERE and the DeleteNode as root,
\* the ValidateNode being in every such plan.
C23_DeleteAlwaysValidated == Accepted("kStmtDelete") => DeletePlan(TRUE)

\* C23: the plan of a DELETE is StoredTable, Validate if the translator
\* validates, the predicates and unions of WHERE and the DeleteNode as root
\* with the name of the table; a translator that does not validate makes no
\* ValidateNode.
C23_DeleteValidatedIfActive == Accepted("kStmtDelete") => DeletePlan(validate)

\* DELETE FROM T1 WHERE (a = 1 OR b > 2) AND a = 1, validated
C23_Witness ==
    /\ Accepted("kStmtDelete") /\ validate
    /\ PlanTypes = <<"Delete", "Predicate", "Union", "Predicate", "Validate", "StoredTable">>

\* ------------------------------------------- SQLTranslator: join columns

\* the origins of the output columns of a node of the plan
OriginsOf(node) == {lqp.nodes[node].columns[i].origin : i \in 1..Len(lqp.nodes[node].columns)}

\* the condition of the join passes the checks of its form and of its operands
PassesXorChecks ==
    LET join == statement.fromTable.join[1]
    IN /\ IsSimpleCondition(join.condition[1])
       /\ ResolvesInOne(join.condition[1].expr[1], join)
       /\ ResolvesInOne(join.condition[1].expr2[1], join)

\* C28 as the specification states it: for a join that is not NATURAL and
\* whose condition passes the checks of its operands, the translation yields a
\* JoinNode whose pair of column origins holds a column of the left input
\* first and a column of the right input second, however the operands are
\* written.
C28_JoinColumnOriginsLeftRight ==
    (lqp.translated /\ JoinOnCondition /\ PassesXorChecks) =>
        /\ lqp.ok
        /\ \E n \in 1..Len(lqp.nodes) :
              /\ lqp.nodes[n].type = "Join"
              /\ lqp.nodes[n].data.join_column_origins[1] \in OriginsOf(lqp.nodes[n].left_child)
              /\ lqp.nodes[n].data.join_column_origins[2]
                    \in OriginsOf(lqp.nodes[n].right_child)

\* --------------------------------------- SQLTranslator: aggregate columns

\* the origin of the column of the AggregateNode's input that has the name
InputColumnOrigin(name) ==
    LET columns == lqp.nodes[lqp.nodes[AggregateNode].left_child].columns
    IN columns[CHOOSE i \in 1..Len(columns) : columns[i].name = name].origin

\* the AggregateNode output column of the i-th item of the select list: the
\* group-by column of its name, or the aggregate after all group-by columns
\* and after the aggregates before it in the list
RequestedColumnOrigin(i) ==
    LET select_list == statement.selectList
    IN IF select_list[i].type = "kExprFunctionRef"
       THEN <<AggregateNode,
              Len(lqp.nodes[AggregateNode].data.groupby_column_origins)
                  + Cardinality({j \in 1..(i - 1) :
                                    select_list[j].type = "kExprFunctionRef"})>>
       ELSE InputColumnOrigin(select_list[i].name)

\* C29 as the specification states it: the i-th expression of the final
\* ProjectionNode of an aggregating SELECT is the column of the AggregateNode
\* that the i-th item of the select list asks for, wherever the group-by
\* column is in the input table and in the GROUP BY list.
C29_ProjectionFollowsSelectList ==
    (lqp.translated /\ lqp.ok /\ AggregatingSelect) =>
        /\ Len(FinalProjection.data.expressions) = Len(statement.selectList)
        /\ \A i \in 1..Len(statement.selectList) :
              FinalProjection.data.expressions[i].column_origin
                  = <<RequestedColumnOrigin(i)>>

\* ------------------------------------- SetUnion: the chunks of the result

\* the column ids at which the first chunk of a table changes PosList
SegmentBegins(table) ==
    {column - 1 : column \in {c \in 1..column_count(table) :
                                 c = 1 \/ Segmentation(table)[c] # Segmentation(table)[c - 1]}}

\* the segment a column id is in: the last segment begin at or below it
SegmentOf(begins, column_id) ==
    CHOOSE k \in 1..Len(begins) :
        /\ begins[k] <= column_id
        /\ \A later \in (k + 1)..Len(begins) : begins[later] > column_id

\* C26: every chunk SetUnion emits has as many columns as the inputs; the
\* columns of one segment share a position list, columns of different segments
\* hold different position lists, all position lists of a chunk are of one
\* length, and the segment begins are strictly increasing, start at column 0
\* and are the union of the segment begins of the left and the right input.
C26_EmittedChunkColumns ==
    set_union.from = "new"
    => LET begins == set_union.column_segment_begins
       IN  /\ Len(begins) >= 1 /\ begins[1] = 0
           /\ \A k \in 1..(Len(begins) - 1) : begins[k] < begins[k + 1]
           /\ Range(begins) = SegmentBegins(input_left) \cup SegmentBegins(input_right)
           /\ \A c \in 1..Len(set_union.output.chunks) :
                 LET columns == set_union.output.chunks[c].columns
                 IN  /\ Len(columns) = column_count(input_left)
                     /\ Len(columns) = column_count(input_right)
                     /\ \A i, j \in 1..Len(columns) :
                           /\ Len(columns[i].rows) = Len(columns[j].rows)
                           /\ (SegmentOf(begins, i - 1) = SegmentOf(begins, j - 1))
                                 <=> (columns[i].pos_list = columns[j].pos_list)
                           /\ (columns[i].pos_list = columns[j].pos_list)
                                 => (columns[i].rows = columns[j].rows)

\* C26 witness: the left input holds its two columns in one segment, the right
\* in two, and the chunks of the result hold two columns of two position lists
C26_Witness ==
    /\ set_union.from = "new"
    /\ Segmentation(input_left) = <<1, 1>> /\ Segmentation(input_right) = <<1, 2>>
    /\ set_union.column_segment_begins = <<0, 1>>
    /\ Len(set_union.output.chunks) = 2
    /\ set_union.output.chunks[1].columns[1].pos_list
          # set_union.output.chunks[1].columns[2].pos_list

\* C27 as claimed: for inputs of the same schema and at least one column,
\* SetUnion fails whenever an input is not a References table.
C27_NonReferencesFails ==
    (/\ set_union.executed
     /\ SameSchema /\ column_count(input_left) > 0
     /\ ~BothReferences)
    => set_union.status = "failed"

\* C27 as amended: for inputs of the same schema, at least one column and at
\* least one row each, SetUnion fails whenever an input is not a References
\* table.
C27_NonReferencesWithRowsFails ==
    (/\ set_union.executed
     /\ SameSchema /\ column_count(input_left) > 0
     /\ row_count(input_left) > 0 /\ row_count(input_right) > 0
     /\ ~BothReferences)
    => set_union.status = "failed" /\ set_union.output = NoTable

\* C27 witness: a References table and a Data table of the same layout, both
\* holding rows, and SetUnion failed
C27_Witness ==
    /\ set_union.status = "failed"
    /\ SameSchema /\ column_count(input_left) = 2
    /\ input_left.type = "References" /\ input_right.type = "Data"
    /\ row_count(input_left) > 0 /\ row_count(input_right) > 0

\* ------------------------------------------------ SetUnion: the merge loop

\* the row of a reference matrix a virtual pos list holds at an index
MatrixRow(reference_matrix, virtual_pos_list, idx) ==
    [column \in 1..Len(reference_matrix) |-> reference_matrix[column][virtual_pos_list[idx + 1] + 1]]

\* the rows emitted so far: those of the chunks and of the chunk being filled
EmittedRows(m) ==
    SumSeq([c \in 1..Len(m.chunks) |-> m.chunks[c].size]) + Len(m.pos_lists[1])

\* the last iteration emitted one row and advanced left_idx, right_idx or, the
\* left and the right row being equal, both
IterationAdvanced ==
    LET x == merge.x
        left_row == MatrixRow(x.reference_matrix_left, x.virtual_pos_list_left, merge.from_left_idx)
        right_row == MatrixRow(x.reference_matrix_right, x.virtual_pos_list_right,
                               merge.from_right_idx)
        left_step == merge.m.left_idx - merge.from_left_idx
        right_step == merge.m.right_idx - merge.from_right_idx
    IN  /\ left_step \in {0, 1} /\ right_step \in {0, 1}
        /\ left_step + right_step >= 1
        /\ (merge.from_left_idx < x.num_left /\ merge.from_right_idx < x.num_right)
              => ((left_step + right_step = 2) <=> (left_row = right_row))
        /\ (merge.from_left_idx = x.num_left \/ merge.from_right_idx = x.num_right)
              => left_step + right_step = 1

\* what holds of the merge loop after every iteration: the indices are within
\* their lists, each iteration so far emitted one row and advanced an index,
\* the next iteration reads no list past its end, and the iterations are at
\* most num_left + num_right
MergeLoopInvariant ==
    merge.merging
    => LET x == merge.x
       IN  /\ merge.m.left_idx <= x.num_left /\ merge.m.right_idx <= x.num_right
           /\ merge.iterations <= x.num_left + x.num_right
           /\ merge.iterations <= merge.m.left_idx + merge.m.right_idx
           /\ EmittedRows(merge.m) = merge.iterations
           /\ merge.iterations > 0 => IterationAdvanced
           /\ MergeContinues(merge.m, x)
                 => /\ \A idx \in MergeReads(merge.m, x).left :
                          idx < Len(x.virtual_pos_list_left)
                    /\ \A idx \in MergeReads(merge.m, x).right :
                          idx < Len(x.virtual_pos_list_right)
           /\ ~MergeContinues(merge.m, x)
                 => merge.m.left_idx = x.num_left /\ merge.m.right_idx = x.num_right

\* the loop was left with both lists consumed and _on_execute returned the
\* table the loop built
MergeLoopLeft ==
    /\ ~merge.merging
    /\ merge.m.left_idx = merge.x.num_left /\ merge.m.right_idx = merge.x.num_right
    /\ set_union = _on_execute(input_left, input_right)

\* C30: the merge loop terminates: every iteration emits one row and advances
\* left_idx or right_idx (both when the rows are equal), no index exceeds the
\* length of its list, no virtual pos list is read past its end, and after at
\* most num_left + num_right iterations the loop is left with both lists
\* consumed.
C30_MergeLoopTerminates == []MergeLoopInvariant /\ <>[]MergeLoopLeft

\* C30 witness: a loop of three iterations over two inputs of two rows each
\* that share one row, left with both lists consumed
C30_Witness ==
    /\ ~merge.merging /\ set_union.executed
    /\ merge.iterations = 3
    /\ merge.m.left_idx = 2 /\ merge.m.right_idx = 2
    /\ merge.take = "right"

\* ---------------------------------------------- BaseExpression: properties

\* the expression that was copied and the copy, with the objects they lead to
Original == dereference(heap, expression_call.expression)

Copy == dereference(heap, expression_call.copy)

\* C24: deep_copy returns an expression that is equal (operator==) to the one
\* copied and agrees with it in type, value, aggregate function, table name,
\* alias, value placeholder, both children and the aggregate function
\* arguments in their order; the copy leads to no object the original leads
\* to, and set_alias or set_left_child on the copy leaves the original as it was.
C24_DeepCopyEqualAndApart ==
    /\ expression_call.op = "deep_copy"
          => /\ expression_call.result
             /\ Copy = Original
             /\ Original = expression_call.before[1]
             /\ Reachable(heap, expression_call.copy)
                   \cap Reachable(heap, expression_call.expression) = {}
    /\ expression_call.op \in {"set_alias", "set_left_child"}
          => Original = expression_call.before[1]

\* C24 witness: the copy of an operator over an aggregate function was given
\* another alias on the function's argument, and the original still has none
C24_Witness ==
    /\ expression_call.op = "set_alias"
    /\ Original.type = "Addition" /\ Original.alias = <<"x">>
    /\ Original.left_child[1].type = "Function"
    /\ Original.left_child[1].aggregate_function_arguments[1].alias = <<>>
    /\ Copy.left_child[1].aggregate_function_arguments[1].alias = <<"y">>
    /\ Copy.right_child = Original.right_child

\* two expressions agree in the fields named and, recursively, in their
\* children (none matching none) and their aggregate function arguments
RECURSIVE Agree(_, _, _)
Agree(fields, expression, other) ==
    /\ \A field \in fields : expression[field] = other[field]
    /\ Len(expression.left_child) = Len(other.left_child)
    /\ \A i \in 1..Len(expression.left_child) :
          Agree(fields, expression.left_child[i], other.left_child[i])
    /\ Len(expression.right_child) = Len(other.right_child)
    /\ \A i \in 1..Len(expression.right_child) :
          Agree(fields, expression.right_child[i], other.right_child[i])
    /\ Len(expression.aggregate_function_arguments) = Len(other.aggregate_function_arguments)
    /\ \A i \in 1..Len(expression.aggregate_function_arguments) :
          Agree(fields, expression.aggregate_function_arguments[i],
                other.aggregate_function_arguments[i])

Compared == expression_call.op = "operator=="

\* C25 as claimed: two expressions are equal exactly when they agree in kind,
\* value, aggregate function, alias, children and aggregate function arguments.
C25_EqualIffAgreeAsListed ==
    Compared
    => (expression_call.result
           <=> Agree({"type", "value", "aggregate_function", "alias"},
                     Original, dereference(heap, expression_call.other)))

\* C25 as amended: two expressions are equal exactly when they agree in kind,
\* value, aggregate function, table name, alias, children and aggregate
\* function arguments; the value placeholder takes no part.
C25_EqualIffAgreeWithTableName ==
    Compared
    => (expression_call.result
           <=> Agree({"type", "value", "aggregate_function", "table_name", "alias"},
                     Original, dereference(heap, expression_call.other)))

\* C25 witness: two operators that differ in nothing but the value of the
\* right child compared unequal
C25_Witness ==
    /\ Compared /\ ~expression_call.result
    /\ Original.type = "Equals"
    /\ dereference(heap, expression_call.other).type = "Equals"
    /\ Original.left_child = dereference(heap, expression_call.other).left_child
    /\ Original.right_child[1].value # dereference(heap, expression_call.other).right_child[1].value
    /\ Original.right_child[1].type = "Literal"
    /\ dereference(heap, expression_call.other).right_child[1].type = "Literal"

====
